---- MODULE Spec2Model ----
(***************************************************************************)
(* A model of factoratio's prototype loader (factoratio/prototype.py) and  *)
(* of the catalog entities it builds (factoratio/item.py,                  *)
(* factoratio/fuel.py).                                                    *)
(*                                                                         *)
(* Python objects are represented by value.  An ItemGroup, Item or Fluid   *)
(* object is identified by its kind and its name: the loader creates a new *)
(* object of a kind only when no object of that name is registered in the  *)
(* dictionary of that kind, and record names are unique, so a reference to *)
(* an object is modelled by the object's name.  Recipe objects have no     *)
(* name and are mutated through references, so they live in a heap.        *)
(* Python's None and Lua's nil are the string None for fields that hold    *)
(* strings and the number NilNum for fields that hold numbers.             *)
(***************************************************************************)
EXTENDS Integers, Sequences, FiniteSets, TLC

VARIABLES
  pc,         \* position inside initialize()
  data,       \* the Lua 'data' table: the records of the category loaded last
  idx,        \* index in data of the next record the running loop handles
  items,      \* Prototypes.items      name -> Item
  fluids,     \* Prototypes.fluids     name -> Fluid
  fuels,      \* Prototypes.fuels      name -> Fuel
  groups,     \* Prototypes.groups     name -> ItemGroup (top-level groups)
  subgroups,  \* Prototypes.subgroups  name -> ItemGroup (subgroups)
  recipes,    \* Prototypes.recipes    name -> reference to a Recipe object
  heap,       \* the Recipe objects, by reference
  err,        \* the exception that left initialize(), or None
  call,       \* the last Recipe.addExpensiveMode call made on the heap
  path,       \* the directories that exist under the definitions directory
  files,      \* ProtoReader: the files of the category loaded last, in glob order
  yielded,    \* ProtoReader: what luaData has yielded since the last load
  arg,        \* the arguments of a call of the unit or producer interface
  ret         \* what that call returned or raised

vars == <<pc, data, idx, items, fluids, fuels, groups, subgroups, recipes,
          heap, err, call, path, files, yielded, arg, ret>>

None == "None"
NilNum == -1
NoRef == 0

(***************************************************************************)
(* Bounds of the model.                                                    *)
(***************************************************************************)
MaxItemRecords == 4
MaxFluidRecords == 1
MaxRecipeRecords == 2
NRecipes == 3

(***************************************************************************)
(* Python dictionaries.                                                    *)
(***************************************************************************)
EmptyDict == [k \in {} |-> None]

Put(d, k, v) == [x \in DOMAIN d \cup {k} |-> IF x = k THEN v ELSE d[x]]

(***************************************************************************)
(* Python numbers.  A number is n / d * 10^e, kept in the normal form in   *)
(* which d is positive and has no common factor with n or with 10 and n    *)
(* is no multiple of 10, so that equal numbers are equal records and a     *)
(* magnitude of 10^12 needs no large integer.                              *)
(***************************************************************************)
RECURSIVE GCD(_, _)
GCD(a, b) == IF b = 0 THEN a ELSE GCD(b, a % b)

Abs(x) == IF x < 0 THEN -x ELSE x

RECURSIVE Normal(_, _, _)
Normal(n, d, e) ==
  IF n = 0 THEN [n |-> 0, d |-> 1, e |-> 0]
  ELSE IF d < 0 THEN Normal(-n, -d, e)
  ELSE IF d % 2 = 0 THEN Normal(n * 5, d \div 2, e - 1)
  ELSE IF d % 5 = 0 THEN Normal(n * 2, d \div 5, e - 1)
  ELSE IF n % 10 = 0 THEN Normal(n \div 10, d, e + 1)
  ELSE LET g == GCD(Abs(n), d)
       IN [n |-> n \div g, d |-> d \div g, e |-> e]

Num(k) == Normal(k, 1, 0)

Frac(n, d) == Normal(n, d, 0)

RECURSIVE Pow10(_)
Pow10(k) == IF k = 0 THEN 1 ELSE 10 * Pow10(k - 1)

Min(a, b) == IF a < b THEN a ELSE b

Mul(x, y) == Normal(x.n * y.n, x.d * y.d, x.e + y.e)

\* x / y for y # 0; Python raises ZeroDivisionError for y = 0
Div(x, y) == Normal(x.n * y.d, x.d * y.n, x.e - y.e)

Add(x, y) ==
  LET m == Min(x.e, y.e)
  IN Normal(x.n * Pow10(x.e - m) * y.d + y.n * Pow10(y.e - m) * x.d,
            x.d * y.d, m)

IsZero(x) == x.n = 0

\* round(x, 6): the nearest multiple of 10^-6, a tie going to the even one
RoundQuotient(num, den) ==
  LET q == num \div den
      r2 == 2 * (num - q * den)
  IN IF r2 > den \/ (r2 = den /\ q % 2 = 1) THEN q + 1 ELSE q

RoundScaled(scaled) ==
  Normal(RoundQuotient(
           scaled.n * Pow10(IF scaled.e > 0 THEN scaled.e ELSE 0),
           scaled.d * Pow10(IF scaled.e < 0 THEN -scaled.e ELSE 0)), 1, -6)

Round6(x) ==
  IF x.d = 1 /\ x.e >= -6 THEN x ELSE RoundScaled(Mul(x, Normal(1, 1, 6)))

(***************************************************************************)
(* item.ItemGroup: name, order, parent and the _children mapping.  The     *)
(* keys of _children are the names of the children; len() is their number. *)
(***************************************************************************)
ItemGroup(name, order, parent) ==
  [name |-> name, order |-> order, parent |-> parent, children |-> {}]

SetChild(group, key) == [group EXCEPT !.children = @ \cup {key}]

Len0(group) == group.children = {}

Item(name, type, subgroup, order) ==
  [name |-> name, type |-> type, subgroup |-> subgroup, order |-> order]

\* A Python object of class str, as a Lua string field reads.
Str(text) == [class |-> "str", text |-> text]

\* An object of a unit class (Watt, Joule) after its constructor set value.
Unit(class, value) == [class |-> class, value |-> value]

\* Whether the object has the attribute value.
HasValue(x) == x.class \in {"SINumber", "Watt", "Joule"}

Raise(e) == [err |-> e, val |-> Num(0)]

Return_(v) == [err |-> None, val |-> v]

\* fuel.Fuel: __init__ stores the energy it is given.
Fuel(name, energy) == [name |-> name, energy |-> energy]

\* Fuel.burnTime: self.energy.value / consumptionRate.value * count
burnTime(self, consumptionRate, count) ==
  IF ~HasValue(self.energy) \/ ~HasValue(consumptionRate)
    THEN Raise("AttributeError")
  ELSE IF IsZero(consumptionRate.value) THEN Raise("ZeroDivisionError")
  ELSE Return_(Mul(Div(self.energy.value, consumptionRate.value), Num(count)))

(***************************************************************************)
(* The records of the 'item' category.  A field a record does not declare  *)
(* reads as nil.                                                           *)
(***************************************************************************)
GroupNames == {"g1"}
SubGroupNames == {"s1", "s2"}
ItemNames == {"i1", "i2"}

GroupRecords ==
  [name : GroupNames, type : {"item-group"}, hidden : BOOLEAN,
   order : {"a"}, group : {None}, subgroup : {None}, fuel_value : {None}]

SubGroupRecords ==
  [name : SubGroupNames, type : {"item-subgroup"}, hidden : BOOLEAN,
   order : {"b"}, group : GroupNames, subgroup : {None}, fuel_value : {None}]

ItemTypeOf(n) == IF n = "i2" THEN "tool" ELSE "item"

FuelValuesOf(n) == IF n = "i1" THEN {None, "8MJ"} ELSE {None}

\* The record of i2 may declare no subgroup.
SubGroupsOf(n) == IF n = "i2" THEN SubGroupNames \cup {None} ELSE SubGroupNames

ItemRecords ==
  UNION {[name : {n}, type : {ItemTypeOf(n)}, hidden : BOOLEAN,
          order : {"c"}, group : {None}, subgroup : SubGroupsOf(n),
          fuel_value : FuelValuesOf(n)] : n \in ItemNames}

ItemCategoryRecords == GroupRecords \cup SubGroupRecords \cup ItemRecords

NamesOf(s) == {s[k].name : k \in DOMAIN s}

RECURSIVE UniqueSeqs(_, _)
UniqueSeqs(U, n) ==
  IF n = 0 THEN {<<>>}
  ELSE LET shorter == UniqueSeqs(U, n - 1)
       IN shorter \cup
          {Append(s, r) : <<s, r>> \in
             {p \in shorter \X U : Len(p[1]) = n - 1 /\ p[2].name \notin NamesOf(p[1])}}

ItemInputs == UniqueSeqs(ItemCategoryRecords, MaxItemRecords)

Hidden(table) == table.hidden

(***************************************************************************)
(* ProtoReader.makeGroup, makeSubGroup, makeItem, makeFuel.  Each takes    *)
(* the dictionaries it reads and returns the object it makes together with *)
(* the dictionaries as its side effects leave them.                        *)
(***************************************************************************)
\* Mutant: the order deferred in makeSubGroup is never filled in.
makeGroup_NoBackfill(G, table) ==
  IF table.name \in DOMAIN G
    THEN G[table.name]
    ELSE ItemGroup(table.name, table.order, None)

makeGroup(G, table) ==
  IF table.name \in DOMAIN G
    THEN [G[table.name] EXCEPT !.order = table.order]
    ELSE ItemGroup(table.name, table.order, None)

\* Mutant: a subgroup is always made anew, a placeholder of its name replaced.
makeSubGroup_Replaces(G, S, table) ==
  LET G1 == IF table.group \in DOMAIN G THEN G
            ELSE Put(G, table.group, ItemGroup(table.group, None, None))
  IN [groups |-> [G1 EXCEPT ![table.group] = SetChild(@, table.name)],
      obj |-> ItemGroup(table.name, table.order, table.group)]

makeSubGroup(G, S, table) ==
  LET G1 == IF table.group \in DOMAIN G THEN G
            ELSE Put(G, table.group, ItemGroup(table.group, None, None))
      subgroup == IF table.name \in DOMAIN S
                    THEN [S[table.name] EXCEPT !.parent = table.group,
                                               !.order = table.order]
                    ELSE ItemGroup(table.name, table.order, table.group)
  IN [groups |-> [G1 EXCEPT ![table.group] = SetChild(@, table.name)],
      obj |-> subgroup]

makeItem(S, table) ==
  LET S1 == IF table.subgroup \in DOMAIN S THEN S
            ELSE Put(S, table.subgroup, ItemGroup(table.subgroup, None, None))
  IN [subgroups |-> [S1 EXCEPT ![table.subgroup] = SetChild(@, table.name)],
      obj |-> Item(table.name, table.type, table.subgroup, table.order)]

\* Fuel(table.name, table.fuel_value): the energy is the field as read.
makeFuel(table) == Fuel(table.name, Str(table.fuel_value))

(***************************************************************************)
(* The body of the first loop of initialize(), as a function of the        *)
(* dictionaries: c is [items, fuels, groups, subgroups].                   *)
(***************************************************************************)
ItemLoopBody(c, table) ==
  IF Hidden(table) THEN c
  ELSE IF table.type = "item-group" THEN
    [c EXCEPT !.groups = Put(c.groups, table.name, makeGroup(c.groups, table))]
  ELSE IF table.type = "item-subgroup" THEN
    LET m == makeSubGroup(c.groups, c.subgroups, table)
    IN [c EXCEPT !.groups = m.groups,
                 !.subgroups = Put(c.subgroups, table.name, m.obj)]
  ELSE
    LET m == makeItem(c.subgroups, table)
    IN [c EXCEPT !.subgroups = m.subgroups,
                 !.items = Put(c.items, table.name, m.obj),
                 !.fuels = IF table.fuel_value # None
                             THEN Put(c.fuels, table.name, makeFuel(table))
                             ELSE c.fuels]

(***************************************************************************)
(* The two pruning loops of initialize().  The first deletes every         *)
(* subgroup without children from its parent and from subgroups; it raises *)
(* when such a subgroup has no parent or its parent does not hold it.      *)
(***************************************************************************)
EmptySubgroups(S) == {n \in DOMAIN S : Len0(S[n])}

PruneSubgroupsFails(G, S) ==
  \E n \in EmptySubgroups(S) :
     \/ S[n].parent = None
     \/ S[n].parent \notin DOMAIN G
     \/ n \notin G[S[n].parent].children

PrunedSubgroups(S) == [n \in DOMAIN S \ EmptySubgroups(S) |-> S[n]]

GroupsAfterSubgroupPruning(G, S) ==
  [g \in DOMAIN G |->
     [G[g] EXCEPT !.children =
        @ \ {n \in EmptySubgroups(S) : S[n].parent = g}]]

\* Mutant: the loop over the groups deletes nothing.
PrunedGroups_KeepAll(G) == G

PrunedGroups(G) == [g \in {x \in DOMAIN G : ~Len0(G[x])} |-> G[g]]

\* An argument of Recipe.addExpensiveMode: a reference to a Recipe, or an
\* object of another class.
RecipeArg(ref) == [class |-> "Recipe", ref |-> ref]

OtherArg == [class |-> "NoneType", ref |-> NoRef]

NoCall == [self |-> NoRef, arg |-> OtherArg, err |-> None]

(***************************************************************************)
(* The first loop and the two pruning loops of initialize() run on a whole *)
(* sequence of records, from empty dictionaries.                           *)
(***************************************************************************)
RECURSIVE RunItemLoop(_, _, _)
RunItemLoop(c, s, k) ==
  IF k > Len(s) THEN c ELSE RunItemLoop(ItemLoopBody(c, s[k]), s, k + 1)

LinkItems(s) ==
  LET c == RunItemLoop([items |-> EmptyDict, fuels |-> EmptyDict,
                        groups |-> EmptyDict, subgroups |-> EmptyDict], s, 1)
  IN IF PruneSubgroupsFails(c.groups, c.subgroups)
       THEN [c EXCEPT !.groups = EmptyDict, !.subgroups = EmptyDict,
                      !.items = EmptyDict, !.fuels = EmptyDict]
       ELSE [c EXCEPT
               !.groups = PrunedGroups(
                            GroupsAfterSubgroupPruning(c.groups, c.subgroups)),
               !.subgroups = PrunedSubgroups(c.subgroups)]

(***************************************************************************)
(* The definitions directory.  path is the set of directories that exist:  *)
(* "." is protoPath itself, the others are its category subdirectories.    *)
(* Path.glob on a directory that does not exist yields no file, so         *)
(* loadPrototypes executes nothing and leaves the reset 'data' table.      *)
(***************************************************************************)
Categories == {"item", "fluid", "recipe"}

\* protoPath is missing, or it exists and at most one category is missing.
Paths ==
  {{}} \cup {{"."} \cup Categories} \cup
  {{"."} \cup (Categories \ {c}) : c \in Categories}

Exists(p) == "." \in p

Glob(p, subdir) == {".", subdir} \subseteq p

\* What loadPrototypes can leave in 'data' for a category whose files hold
\* the record sequences of U.
Loaded(p, subdir, U) == IF Glob(p, subdir) THEN U ELSE {<<>>}

NoArg == [op |-> "none"]

NoRet == [op |-> "none", err |-> None]

\* The reader's trace and the call interface are not used by initialize().
Unused ==
  /\ files = <<>>
  /\ yielded = <<>>
  /\ arg = NoArg
  /\ ret = NoRet

(***************************************************************************)
(* initialize(): construction, and the pass over the 'item' category.  A   *)
(* protoPath that does not exist is logged and nothing else: initialize()  *)
(* goes on to construct the reader and run the three passes.               *)
(***************************************************************************)
Init ==
  /\ pc = "load_item"
  /\ path \in Paths
  /\ Unused
  /\ err = None
  /\ data = <<>>
  /\ idx = 1
  /\ items = EmptyDict
  /\ fluids = EmptyDict
  /\ fuels = EmptyDict
  /\ groups = EmptyDict
  /\ subgroups = EmptyDict
  /\ recipes = EmptyDict
  /\ heap = <<>>
  /\ err = None
  /\ call = NoCall

LoadItems ==
  /\ pc = "load_item"
  /\ data' \in Loaded(path, "item", ItemInputs)
  /\ idx' = 1
  /\ pc' = "items"
  /\ UNCHANGED <<items, fluids, fuels, groups, subgroups, recipes, heap, err, call>>
  /\ UNCHANGED <<path, files, yielded, arg, ret>>

ItemStep ==
  /\ pc = "items"
  /\ err = None
  /\ idx <= Len(data)
  /\ LET c == ItemLoopBody([items |-> items, fuels |-> fuels,
                            groups |-> groups, subgroups |-> subgroups],
                           data[idx])
     IN /\ items' = c.items
        /\ fuels' = c.fuels
        /\ groups' = c.groups
        /\ subgroups' = c.subgroups
  /\ idx' = idx + 1
  /\ UNCHANGED <<pc, data, fluids, recipes, heap, err, call>>
  /\ UNCHANGED <<path, files, yielded, arg, ret>>

ItemsDone ==
  /\ pc = "items"
  /\ err = None
  /\ idx > Len(data)
  /\ pc' = "prune_subgroups"
  /\ UNCHANGED <<data, idx, items, fluids, fuels, groups, subgroups, recipes,
                 heap, err, call>>
  /\ UNCHANGED <<path, files, yielded, arg, ret>>

PruneSubgroups ==
  /\ pc = "prune_subgroups"
  /\ err = None
  /\ IF PruneSubgroupsFails(groups, subgroups)
       THEN /\ err' = "KeyError"
            /\ UNCHANGED <<pc, groups, subgroups>>
       ELSE /\ pc' = "prune_groups"
            /\ groups' = GroupsAfterSubgroupPruning(groups, subgroups)
            /\ subgroups' = PrunedSubgroups(subgroups)
            /\ err' = err
  /\ UNCHANGED <<data, idx, items, fluids, fuels, recipes, heap, call>>
  /\ UNCHANGED <<path, files, yielded, arg, ret>>

PruneGroups ==
  /\ pc = "prune_groups"
  /\ err = None
  /\ groups' = PrunedGroups(groups)
  /\ pc' = "load_fluid"
  /\ UNCHANGED <<data, idx, items, fluids, fuels, subgroups, recipes, heap, err, call>>
  /\ UNCHANGED <<path, files, yielded, arg, ret>>

(***************************************************************************)
(* The records of the 'fluid' category, item.Fluid and makeFluid.  The     *)
(* _make decorator raises ValueError when the record's type is not the one *)
(* the method is declared for; Fluid.__post_init__ makes a Joule of a      *)
(* heat_capacity string and raises TypeError for anything else.            *)
(***************************************************************************)
FluidNames == {"f1"}

\* A file of the 'fluid' category may hold a record of another type.
FluidRecords ==
  [name : FluidNames, type : {"fluid", "item"}, default_temperature : {15},
   max_temperature : {100}, heat_capacity : {"0.2KJ", None}, order : {"d"}]

FluidInputs == UniqueSeqs(FluidRecords, MaxFluidRecords)

\* The Joule made of a heat_capacity string, identified by the string it
\* is constructed from.
Joule(text) == [baseSymbol |-> "J", units |-> text]

Fluid(name, temp_default, temp_max, heat_capacity, order) ==
  [name |-> name, temp_default |-> temp_default, temp_max |-> temp_max,
   heat_capacity |-> Joule(heat_capacity), order |-> order]

MakeTypeError(type_, table) ==
  IF type_ = None \/ type_ = table.type THEN None ELSE "ValueError"

makeFluid(table) ==
  IF MakeTypeError("fluid", table) # None
    THEN [err |-> MakeTypeError("fluid", table), obj |-> None]
  ELSE IF table.heat_capacity = None
    THEN [err |-> "TypeError", obj |-> None]
  ELSE [err |-> None,
        obj |-> Fluid(table.name, table.default_temperature,
                      table.max_temperature, table.heat_capacity, table.order)]

LoadFluids ==
  /\ pc = "load_fluid"
  /\ err = None
  /\ data' \in Loaded(path, "fluid", FluidInputs)
  /\ idx' = 1
  /\ pc' = "fluids"
  /\ UNCHANGED <<items, fluids, fuels, groups, subgroups, recipes, heap, err, call>>
  /\ UNCHANGED <<path, files, yielded, arg, ret>>

\* Mutant: the fluid is registered among the items as well.
FluidStep_RegistersItem ==
  /\ pc = "fluids"
  /\ err = None
  /\ idx <= Len(data)
  /\ \E m \in {makeFluid(data[idx])} :
       IF m.err # None
         THEN /\ err' = m.err
              /\ UNCHANGED <<fluids, items, idx>>
         ELSE /\ fluids' = Put(fluids, data[idx].name, m.obj)
              /\ items' = Put(items, data[idx].name, m.obj)
              /\ idx' = idx + 1
              /\ err' = err
  /\ UNCHANGED <<pc, data, fuels, groups, subgroups, recipes, heap, call>>
  /\ UNCHANGED <<path, files, yielded, arg, ret>>

FluidStep ==
  /\ pc = "fluids"
  /\ err = None
  /\ idx <= Len(data)
  /\ LET m == makeFluid(data[idx])
     IN IF m.err # None
          THEN /\ err' = m.err
               /\ UNCHANGED <<fluids, idx>>
          ELSE /\ fluids' = Put(fluids, data[idx].name, m.obj)
               /\ idx' = idx + 1
               /\ err' = err
  /\ UNCHANGED <<pc, data, items, fuels, groups, subgroups, recipes, heap, call>>
  /\ UNCHANGED <<path, files, yielded, arg, ret>>

FluidsDone ==
  /\ pc = "fluids"
  /\ err = None
  /\ idx > Len(data)
  /\ pc' = "load_recipe"
  /\ UNCHANGED <<data, idx, items, fluids, fuels, groups, subgroups, recipes,
                 heap, err, call>>
  /\ UNCHANGED <<path, files, yielded, arg, ret>>

(***************************************************************************)
(* item.Ingredient and item.Recipe.  A Recipe's time, input and output     *)
(* hold whatever the constructor is given, a list of Ingredients or a      *)
(* number, so each is a tagged value.  _expensive is a reference into the  *)
(* heap (NoRef for None).  A probability is held in percent.               *)
(***************************************************************************)
ListVal(list) == [kind |-> "list", list |-> list, num |-> NilNum]

NumVal(num) == [kind |-> "num", list |-> <<>>, num |-> num]

Ingredient(what, count, probability) ==
  [what |-> what,
   count |-> IF count = NilNum THEN 1 ELSE count,
   probability |-> IF probability = NilNum THEN 100 ELSE probability]

Recipe(time, input_, output) ==
  [time |-> time, input |-> input_, output |-> output,
   expensive |-> NoRef, isExpensive |-> FALSE]

expensive(h, self) == h[self].expensive

isExpensive(h, self) == h[self].isExpensive

\* Mutant: the variant tag is set on self instead of on the argument.
addExpensiveMode_TagsSelf(h, self, recipe) ==
  IF recipe.class = "Recipe"
    THEN [err |-> None,
          heap |-> [h EXCEPT ![self].expensive = recipe.ref,
                             ![self].isExpensive = TRUE]]
    ELSE [err |-> "TypeError", heap |-> h]

addExpensiveMode(h, self, recipe) ==
  IF recipe.class = "Recipe"
    THEN [err |-> None,
          heap |-> [h EXCEPT ![self].expensive = recipe.ref,
                             ![recipe.ref].isExpensive = TRUE]]
    ELSE [err |-> "TypeError", heap |-> h]

(***************************************************************************)
(* The records of the 'recipe' category.  A record holds its ingredients   *)
(* and results itself (flat) or in the sub-tables normal and expensive; an *)
(* absent sub-table is the empty sequence, a present one a sequence of one *)
(* table.  An ingredient entry is positional ({"i1", 2}: p1, p2) or named  *)
(* ({name = "f1", amount = 2}).                                            *)
(***************************************************************************)
RecipeNames == ItemNames
ProductNames == ItemNames \cup FluidNames

Entry(n) ==
  IF n \in FluidNames
    THEN [p1 |-> None, p2 |-> NilNum, name |-> n, amount |-> 2,
          probability |-> NilNum]
    ELSE [p1 |-> n, p2 |-> 2, name |-> None, amount |-> NilNum,
          probability |-> NilNum]

ResultEntry(n, probability) ==
  [p1 |-> None, p2 |-> NilNum, name |-> n, amount |-> 1,
   probability |-> probability]

\* result = n
SingleResult(ing, n) ==
  [ingredients |-> <<Entry(ing)>>, result |-> n, result_count |-> NilNum,
   has_results |-> FALSE, results |-> <<>>, energy_required |-> 5]

\* results = {{name = n, amount = 1}, {name = "f1", amount = 1, probability = 0.5}}
MultiResult(ing, n) ==
  [ingredients |-> <<Entry(ing)>>, result |-> None, result_count |-> NilNum,
   has_results |-> TRUE,
   results |-> <<ResultEntry(n, NilNum), ResultEntry("f1", 50)>>,
   energy_required |-> 5]

FlatRecords ==
  {[name |-> n, type |-> "recipe", flat |-> <<b>>, normal |-> <<>>,
    expensive |-> <<>>] :
     <<n, b>> \in {<<n, b>> \in RecipeNames \X
                     UNION {{SingleResult(i, m), MultiResult(i, m)} :
                              <<i, m>> \in ProductNames \X RecipeNames} :
                     b.result = n \/ (b.has_results /\ b.results[1].name = n)}}

NestedRecords ==
  {[name |-> n, type |-> "recipe", flat |-> <<>>,
    normal |-> <<SingleResult("i1", n)>>,
    expensive |-> <<SingleResult(i, n)>>] :
     <<n, i>> \in RecipeNames \X ProductNames}

\* Records of another type in a file of the 'recipe' category.
WrongKindRecords ==
  {[name |-> n, type |-> "item", flat |-> <<SingleResult("i1", n)>>,
    normal |-> <<>>, expensive |-> <<>>] : n \in RecipeNames}

RecipeRecords == FlatRecords \cup NestedRecords \cup WrongKindRecords

RecipeInputs == UniqueSeqs(RecipeRecords, MaxRecipeRecords)

(***************************************************************************)
(* Python's `a or b` on strings and on numbers.                            *)
(***************************************************************************)
OrStr(a, b) == IF a # None /\ a # "" THEN a ELSE b

OrNum(a, b) == IF a # NilNum /\ a # 0 THEN a ELSE b

\* table.expensive if expensive else (table.normal or table)
VariantTable(table, exp) ==
  IF exp THEN table.expensive
  ELSE IF table.normal # <<>> THEN table.normal ELSE table.flat

\* Mutant: products.get(name, name), a lookup that never raises.
Lookup_NeverRaises(I, F, name) == [err |-> None, what |-> name]

\* products[name]: the ChainMap of items and fluids; KeyError when absent
Lookup(I, F, name) ==
  IF name \in DOMAIN I \cup DOMAIN F
    THEN [err |-> None, what |-> name]
    ELSE [err |-> "KeyError", what |-> None]

IngredientNames(t) ==
  [k \in DOMAIN t.ingredients |->
     OrStr(t.ingredients[k].p1, t.ingredients[k].name)]

ResultNames(t) ==
  IF t.result # None THEN <<t.result>>
  ELSE IF t.has_results THEN [k \in DOMAIN t.results |-> t.results[k].name]
  ELSE <<>>

\* Mutant: a failed lookup is swallowed.
LookupErrors_Swallowed(I, F, names) == {}

LookupErrors(I, F, names) ==
  {k \in DOMAIN names : Lookup(I, F, names[k]).err # None}

(***************************************************************************)
(* ProtoReader.makeRecipe: the error it raises (None when it returns) and  *)
(* the Recipe it returns.  The constructor is called with the input list,  *)
(* the output list and energy_required, in that order.                     *)
(***************************************************************************)
makeRecipe(I, F, table, exp) ==
  LET tt == VariantTable(table, exp)
      t == tt[1]
      input_ == [k \in DOMAIN t.ingredients |->
                   Ingredient(Lookup(I, F, IngredientNames(t)[k]).what,
                              OrNum(t.ingredients[k].p2, t.ingredients[k].amount),
                              NilNum)]
      output == IF t.result # None
                  THEN <<Ingredient(Lookup(I, F, t.result).what,
                                    t.result_count, NilNum)>>
                  ELSE [k \in DOMAIN t.results |->
                          Ingredient(Lookup(I, F, t.results[k].name).what,
                                     t.results[k].amount,
                                     t.results[k].probability)]
  IN IF MakeTypeError("recipe", table) # None
       THEN [err |-> MakeTypeError("recipe", table), obj |-> Recipe(0, 0, 0)]
     ELSE IF tt = <<>>
       THEN [err |-> "AttributeError", obj |-> Recipe(0, 0, 0)]
     ELSE IF LookupErrors(I, F, IngredientNames(t)) # {}
       THEN [err |-> "KeyError", obj |-> Recipe(0, 0, 0)]
     ELSE IF LookupErrors(I, F, ResultNames(t)) # {}
       THEN [err |-> "KeyError", obj |-> Recipe(0, 0, 0)]
     ELSE IF t.result = None /\ ~t.has_results
       THEN [err |-> "UnboundLocalError", obj |-> Recipe(0, 0, 0)]
     ELSE [err |-> None,
           obj |-> Recipe(ListVal(input_), ListVal(output),
                          NumVal(t.energy_required))]

\* Mutant: no recipe record is skipped.
SkipRecipe_Never(I, table) == FALSE

\* if table.name not in items: continue
SkipRecipe(I, table) == table.name \notin DOMAIN I

(***************************************************************************)
(* The third loop of initialize(): the error it raises for a record, and   *)
(* the recipes and heap it leaves when it raises none.                     *)
(***************************************************************************)
RecipeLoopBody(I, F, R, h, table) ==
  LET base == makeRecipe(I, F, table, FALSE)
      variant == makeRecipe(I, F, table, TRUE)
      a == Len(h) + 1
      b == Len(h) + 2
  IN IF SkipRecipe(I, table) THEN [err |-> None, recipes |-> R, heap |-> h]
     ELSE IF base.err # None THEN [err |-> base.err, recipes |-> R, heap |-> h]
     ELSE IF table.expensive = <<>>
       THEN [err |-> None, recipes |-> Put(R, table.name, a),
             heap |-> Append(h, base.obj)]
     ELSE IF variant.err # None
       THEN [err |-> variant.err, recipes |-> R, heap |-> h]
     ELSE LET m == addExpensiveMode(Append(Append(h, base.obj), variant.obj),
                                    a, RecipeArg(b))
          IN [err |-> m.err, recipes |-> Put(R, table.name, a), heap |-> m.heap]

LoadRecipes ==
  /\ pc = "load_recipe"
  /\ err = None
  /\ data' \in Loaded(path, "recipe", RecipeInputs)
  /\ idx' = 1
  /\ pc' = "recipes"
  /\ UNCHANGED <<items, fluids, fuels, groups, subgroups, recipes, heap, err, call>>
  /\ UNCHANGED <<path, files, yielded, arg, ret>>

RecipeStep ==
  /\ pc = "recipes"
  /\ err = None
  /\ idx <= Len(data)
  /\ LET m == RecipeLoopBody(items, fluids, recipes, heap, data[idx])
     IN IF m.err # None
          THEN /\ err' = m.err
               /\ UNCHANGED <<recipes, heap, idx>>
          ELSE /\ recipes' = m.recipes
               /\ heap' = m.heap
               /\ idx' = idx + 1
               /\ err' = err
  /\ UNCHANGED <<pc, data, items, fluids, fuels, groups, subgroups, call>>
  /\ UNCHANGED <<path, files, yielded, arg, ret>>

\* return result
Return ==
  /\ pc = "recipes"
  /\ err = None
  /\ idx > Len(data)
  /\ pc' = "done"
  /\ UNCHANGED <<data, idx, items, fluids, fuels, groups, subgroups, recipes,
                 heap, err, call>>
  /\ UNCHANGED <<path, files, yielded, arg, ret>>

Next ==
  \/ LoadItems
  \/ ItemStep
  \/ ItemsDone
  \/ PruneSubgroups
  \/ PruneGroups
  \/ LoadFluids
  \/ FluidStep
  \/ FluidsDone
  \/ LoadRecipes
  \/ RecipeStep
  \/ Return

(***************************************************************************)
(* Recipes used directly: NRecipes Recipe objects as their constructor     *)
(* leaves them, and any sequence of addExpensiveMode calls on them.        *)
(***************************************************************************)
FreshRecipes ==
  [k \in 1..NRecipes |-> Recipe(NumVal(k), ListVal(<<>>), ListVal(<<>>))]

Args == {RecipeArg(r) : r \in 1..NRecipes} \cup {OtherArg}

InitVariants ==
  /\ pc = "api"
  /\ data = <<>>
  /\ idx = 1
  /\ items = EmptyDict
  /\ fluids = EmptyDict
  /\ fuels = EmptyDict
  /\ groups = EmptyDict
  /\ subgroups = EmptyDict
  /\ recipes = EmptyDict
  /\ heap = FreshRecipes
  /\ err = None
  /\ call = NoCall
  /\ path = {}
  /\ Unused

AddExpensiveModeCall ==
  /\ pc = "api"
  /\ \E self \in 1..NRecipes, recipe \in Args :
       LET m == addExpensiveMode(heap, self, recipe)
       IN /\ heap' = m.heap
          /\ call' = [self |-> self, arg |-> recipe, err |-> m.err]
  /\ UNCHANGED <<pc, data, idx, items, fluids, fuels, groups, subgroups,
                 recipes, err>>
  /\ UNCHANGED <<path, files, yielded, arg, ret>>

\* None where a list is expected: the default of input_ and of output.
NoneVal == [kind |-> "none", list |-> <<>>, num |-> NilNum]

(***************************************************************************)
(* Recipe.miningRecipe(time, item, input_=None, output=None): the defaults *)
(* are filled in and the class is called with the input list, the output   *)
(* list and the time, in that order.                                       *)
(***************************************************************************)
miningRecipe(time, item, input_, output) ==
  Recipe(IF input_ = NoneVal THEN ListVal(<<>>) ELSE input_,
         IF output = NoneVal
           THEN ListVal(<<Ingredient(item, 1, NilNum)>>) ELSE output,
         time)

MiningLists ==
  {NoneVal, ListVal(<<Ingredient("i1", 2, NilNum)>>),
   ListVal(<<Ingredient("i2", 1, NilNum), Ingredient("i1", 1, 50)>>)}

MiningRecipeCall ==
  /\ pc = "api"
  /\ \E time \in 1..2, item \in ItemNames, input_ \in MiningLists,
        output \in MiningLists :
       /\ arg' = [op |-> "miningRecipe", time |-> NumVal(time), item |-> item,
                  input |-> input_, output |-> output]
       /\ ret' = [op |-> "miningRecipe", err |-> None,
                  val |-> miningRecipe(NumVal(time), item, input_, output)]
  /\ pc' = "returned"
  /\ UNCHANGED <<data, idx, items, fluids, fuels, groups, subgroups, recipes,
                 err, heap, call>>
  /\ UNCHANGED <<path, files, yielded>>

NextVariants ==
  \/ AddExpensiveModeCall
  \/ MiningRecipeCall

SpecVariants == InitVariants /\ [][NextVariants]_vars

Spec == Init /\ [][Next]_vars


(***************************************************************************)
(* Vocabulary of the properties.                                           *)
(***************************************************************************)
Reverse(s) == [k \in 1..Len(s) |-> s[Len(s) + 1 - k]]

\* The item pass and both pruning loops are over; data still holds the
\* records of the 'item' category.
ItemPassOver == pc = "load_fluid"

\* The states from the end of pruning on.
Pruned == pc \in {"load_fluid", "fluids", "load_recipe", "recipes", "done"}

\* The recipe pass is running or over; data holds the 'recipe' records.
InRecipePass == pc \in {"recipes", "done"}

Returned == pc = "done"

IsGroupRecord(r) == r.type = "item-group"
IsSubGroupRecord(r) == r.type = "item-subgroup"
IsItemRecord(r) == ~IsGroupRecord(r) /\ ~IsSubGroupRecord(r)

Records == {data[k] : k \in 1..Len(data)}

Shown(P(_)) == {r \in Records : P(r) /\ ~r.hidden}

Products == DOMAIN items \cup DOMAIN fluids

\* Every Ingredient a Recipe object holds, whichever field holds it.
IngredientsOf(r) ==
  {r.time.list[k] : k \in DOMAIN r.time.list}
    \cup {r.input.list[k] : k \in DOMAIN r.input.list}
    \cup {r.output.list[k] : k \in DOMAIN r.output.list}

\* The Recipe objects of the catalog: the recipes and their variants.
CatalogRecipes ==
  ({recipes[n] : n \in DOMAIN recipes}
     \cup {expensive(heap, recipes[n]) : n \in DOMAIN recipes}) \ {NoRef}

\* The product names a recipe record makes the loader resolve.
NamedProducts(r) ==
  LET of(tt) == IF tt = <<>> THEN {}
                ELSE {IngredientNames(tt[1])[k] : k \in DOMAIN IngredientNames(tt[1])}
                       \cup {ResultNames(tt[1])[k] : k \in DOMAIN ResultNames(tt[1])}
  IN of(VariantTable(r, FALSE)) \cup of(r.expensive)

HasUnknownProduct(r) == \E n \in NamedProducts(r) : n \notin Products

(***************************************************************************)
(* C1.  Linking is independent of the order of the records: the catalog    *)
(* the item pass and the pruning leave for a sequence of records with      *)
(* unique names has the same items, fuels, groups and subgroups, the same  *)
(* order of every group and subgroup, the same parent of every subgroup    *)
(* and the same children of every group and subgroup as the catalog        *)
(* linking leaves for the same records in reverse order.                   *)
(***************************************************************************)
C1_OrderIndependent ==
  ItemPassOver =>
    LET r == LinkItems(Reverse(data))
    IN /\ DOMAIN items = DOMAIN r.items
       /\ DOMAIN fuels = DOMAIN r.fuels
       /\ DOMAIN groups = DOMAIN r.groups
       /\ DOMAIN subgroups = DOMAIN r.subgroups
       /\ \A g \in DOMAIN groups :
            /\ groups[g].order = r.groups[g].order
            /\ groups[g].children = r.groups[g].children
       /\ \A n \in DOMAIN subgroups :
            /\ subgroups[n].order = r.subgroups[n].order
            /\ subgroups[n].parent = r.subgroups[n].parent
            /\ subgroups[n].children = r.subgroups[n].children

\* An item arrived before its subgroup, and the subgroup before its group:
\* both placeholders were made and filled in, and all three survive.
C1_Witness ==
  /\ ItemPassOver
  /\ Len(data) = 3
  /\ IsItemRecord(data[1]) /\ IsSubGroupRecord(data[2]) /\ IsGroupRecord(data[3])
  /\ data[1].name \in DOMAIN items
  /\ data[2].name \in DOMAIN subgroups
  /\ data[3].name \in DOMAIN groups
  /\ groups[data[3].name].order = data[3].order
  /\ subgroups[data[2].name].parent = data[3].name

(***************************************************************************)
(* C2.  After pruning no subgroup and no group of the catalog is without   *)
(* children: a subgroup declared by a record whose items are all hidden is *)
(* in neither subgroups nor any group's children, a declared group left    *)
(* without such a subgroup is not in groups, and the subgroups are already *)
(* pruned when the groups are.                                             *)
(***************************************************************************)
SurvivingItems(n) == {r \in Shown(IsItemRecord) : r.subgroup = n}

SurvivingSubgroups(g) ==
  {r \in Shown(IsSubGroupRecord) : r.group = g /\ SurvivingItems(r.name) # {}}

C2_NoEmptyGroup ==
  /\ pc = "prune_groups" /\ err = None => EmptySubgroups(subgroups) = {}
  /\ Pruned =>
       /\ \A n \in DOMAIN subgroups : ~Len0(subgroups[n])
       /\ \A g \in DOMAIN groups : ~Len0(groups[g])
  /\ ItemPassOver =>
       /\ \A r \in Shown(IsSubGroupRecord) :
            SurvivingItems(r.name) = {} =>
              /\ r.name \notin DOMAIN subgroups
              /\ \A g \in DOMAIN groups : r.name \notin groups[g].children
       /\ \A r \in Shown(IsGroupRecord) :
            SurvivingSubgroups(r.name) = {} => r.name \notin DOMAIN groups

\* A declared subgroup whose only item is hidden was pruned, and its
\* declared group, left childless, with it.
C2_Witness ==
  /\ ItemPassOver
  /\ \E i, n, g \in Records :
       /\ IsItemRecord(i) /\ i.hidden /\ i.subgroup = n.name
       /\ IsSubGroupRecord(n) /\ ~n.hidden /\ n.group = g.name
       /\ IsGroupRecord(g) /\ ~g.hidden
       /\ n.name \notin DOMAIN subgroups
       /\ g.name \notin DOMAIN groups

(***************************************************************************)
(* C3.  In a returned catalog every Ingredient of every recipe, and of its *)
(* expensive variant, refers to a product that is an item or a fluid of    *)
(* the catalog.                                                            *)
(***************************************************************************)
C3_NoDanglingProduct ==
  Returned =>
    \A r \in CatalogRecipes :
      \A i \in IngredientsOf(heap[r]) : i.what \in Products

\* A returned catalog holds a recipe with an expensive variant and a recipe
\* with a fluid among its Ingredients.
C3_Witness ==
  /\ Returned
  /\ \E n \in DOMAIN recipes : expensive(heap, recipes[n]) # NoRef
  /\ \E r \in CatalogRecipes :
       \E i \in IngredientsOf(heap[r]) : i.what \in DOMAIN fluids

(***************************************************************************)
(* C4.  A record flagged hidden never enters the catalog: after linking,   *)
(* the name of a hidden item record is in neither items nor fuels, that of *)
(* a hidden subgroup record is not in subgroups, and that of a hidden      *)
(* group record is not in groups.                                          *)
(***************************************************************************)
C4_HiddenNeverEnters ==
  ItemPassOver =>
    \A r \in Records :
      r.hidden =>
        /\ IsItemRecord(r) => r.name \notin DOMAIN items \cup DOMAIN fuels
        /\ IsSubGroupRecord(r) => r.name \notin DOMAIN subgroups
        /\ IsGroupRecord(r) => r.name \notin DOMAIN groups

(***************************************************************************)
(* C5.  Linking never returns a catalog with a group whose order, or a     *)
(* subgroup whose order or parent, is still deferred: when the defining    *)
(* record of a referenced group or subgroup is never processed, linking    *)
(* fails instead.                                                          *)
(***************************************************************************)
Deferred(group) == group.order = None

C5_NoDeferredFieldReturned ==
  Returned =>
    /\ \A g \in DOMAIN groups : ~Deferred(groups[g])
    /\ \A n \in DOMAIN subgroups :
         ~Deferred(subgroups[n]) /\ subgroups[n].parent # None

(***************************************************************************)
(* C6.  In a returned catalog every subgroup's parent is a group of the    *)
(* catalog that holds the subgroup as a child, and every child of every    *)
(* group is a subgroup of the catalog.                                     *)
(***************************************************************************)
C6_ParentsAndChildrenLive ==
  Returned =>
    /\ \A n \in DOMAIN subgroups :
         /\ subgroups[n].parent \in DOMAIN groups
         /\ n \in groups[subgroups[n].parent].children
    /\ \A g \in DOMAIN groups : groups[g].children \subseteq DOMAIN subgroups

(***************************************************************************)
(* C7.  A record of type recipe that is not skipped and names a product   *)
(* that is neither an item nor a fluid makes the load fail with KeyError:  *)
(* the loop never gets past such a record, initialize does not return, and *)
(* no recipe is stored for it.                                             *)
(***************************************************************************)
C7_UnknownProductFails ==
  InRecipePass =>
    \A k \in 1..Len(data) :
      (data[k].type = "recipe" /\ ~SkipRecipe(items, data[k])
         /\ HasUnknownProduct(data[k])) =>
        /\ idx <= k
        /\ ~Returned
        /\ data[k].name \notin DOMAIN recipes
        /\ idx = k /\ err # None => err = "KeyError"

\* The load failed on a record whose normal variant resolves and whose
\* expensive variant names an unknown product, after storing a recipe.
C7_Witness ==
  /\ pc = "recipes"
  /\ err = "KeyError"
  /\ idx = 2
  /\ DOMAIN recipes = {data[1].name}
  /\ data[2].expensive # <<>>
  /\ makeRecipe(items, fluids, data[2], FALSE).err = None

(***************************************************************************)
(* C8.  The recipes of the catalog are recipes of items of the catalog: a  *)
(* record whose name is not an item is skipped and cannot fail the load,   *)
(* and a returned catalog holds a recipe under the name of every record    *)
(* that names an item.                                                     *)
(***************************************************************************)
C8_RecipesAreOfItems ==
  /\ DOMAIN recipes \subseteq DOMAIN items
  /\ InRecipePass /\ err # None => data[idx].name \in DOMAIN items
  /\ InRecipePass =>
       DOMAIN recipes =
         {data[k].name : k \in {j \in 1..(idx - 1) : data[j].name \in DOMAIN items}}
  /\ Returned => idx = Len(data) + 1

\* A returned catalog for which one record, naming an unknown product, was
\* skipped and another was stored.
C8_Witness ==
  /\ Returned
  /\ Len(data) = 2
  /\ data[1].name \notin DOMAIN items
  /\ HasUnknownProduct(data[1])
  /\ data[2].name \in DOMAIN recipes

(***************************************************************************)
(* C9.  A call A.addExpensiveMode(B) on two distinct recipes leaves        *)
(* A.expensive() = B and B.isExpensive() true, and leaves A.isExpensive()  *)
(* and B.expensive() as they were.                                         *)
(***************************************************************************)
C9_AddExpensiveMode ==
  [][\A a, b \in 1..NRecipes :
       a # b /\ call' = [self |-> a, arg |-> RecipeArg(b), err |-> None] =>
         /\ expensive(heap', a) = b
         /\ isExpensive(heap', b)
         /\ isExpensive(heap', a) = isExpensive(heap, a)
         /\ expensive(heap', b) = expensive(heap, b)]_vars

\* The last call attached a fresh recipe to another fresh recipe.
C9_Witness ==
  /\ call.arg.class = "Recipe"
  /\ call.self # call.arg.ref
  /\ call.err = None
  /\ expensive(heap, call.self) = call.arg.ref
  /\ ~isExpensive(heap, call.self)
  /\ expensive(heap, call.arg.ref) = NoRef

(***************************************************************************)
(* C10.  After any sequence of addExpensiveMode calls no recipe marked as  *)
(* an expensive variant has an expensive variant itself.                   *)
(***************************************************************************)
C10_OneLevelOfVariants ==
  \A r \in 1..Len(heap) : isExpensive(heap, r) => expensive(heap, r) = NoRef

(***************************************************************************)
(* C11.  initialize() returns a catalog only when the definitions          *)
(* directory and its three category subdirectories exist: with a missing   *)
(* directory it fails instead of returning.                                *)
(***************************************************************************)
C11_MissingDirectoryIsFatal ==
  Returned => Exists(path) /\ \A c \in Categories : Glob(path, c)

(***************************************************************************)
(* C12.  No pass of initialize() gets past a malformed record: a shown     *)
(* item record without a subgroup in the item pass, a record that is not a *)
(* fluid in the fluid pass, a record that is not a recipe in the recipe    *)
(* pass.  The loop stops at the record, and initialize never returns.      *)
(***************************************************************************)
MalformedItem(r) == IsItemRecord(r) /\ ~r.hidden /\ r.subgroup = None

Handled == {data[k] : k \in 1..(idx - 1)}

C12_MalformedRecordAborts ==
  /\ pc = "items" => \A r \in Handled : ~MalformedItem(r)
  /\ pc = "fluids" => \A r \in Handled : r.type = "fluid"
  /\ InRecipePass => \A r \in Handled : r.type = "recipe"

(***************************************************************************)
(* C13.  When the item pass and the pruning are over, fuels has an entry   *)
(* under the name of exactly the shown item records that declare a fuel    *)
(* value, and the energy of each of them is a Joule on which burnTime can  *)
(* be evaluated.                                                           *)
(***************************************************************************)
DeclaresFuel(r) == IsItemRecord(r) /\ r.fuel_value # None

C13_FuelsHoldJoules ==
  ItemPassOver =>
    /\ DOMAIN fuels = {r.name : r \in Shown(DeclaresFuel)}
    /\ \A n \in DOMAIN fuels :
         /\ fuels[n].energy.class = "Joule"
         /\ burnTime(fuels[n], Unit("Watt", Num(1000)), 1).err = None

(***************************************************************************)
(* ProtoReader on its own: the Lua 'data' table, loadPrototypes and the    *)
(* luaData generator.  The table holds the function extend under the key   *)
(* 'extend' and the appended records under the indices 1, 2, ...; data is  *)
(* the indexed part.  A definition file is the sequence of the records its *)
(* data:extend calls append, or a file that Lua cannot execute.            *)
(***************************************************************************)
MaxFiles == 2

ExtendFn == [name |-> "extend", type |-> "function"]

RecordOfCategory(c, n) == [name |-> n, type |-> c]

RECURSIVE SeqsUpTo(_, _)
SeqsUpTo(U, n) ==
  IF n = 0 THEN {<<>>}
  ELSE LET shorter == SeqsUpTo(U, n - 1)
       IN shorter \cup
          {Append(p[1], p[2]) : p \in {q \in shorter \X U : Len(q[1]) = n - 1}}

BadFile == [bad |-> TRUE, records |-> <<>>]

FileOf(rs) == [bad |-> FALSE, records |-> rs]

\* A file appends nothing, one record or two records, or fails.
FilesOf(c) ==
  {FileOf(<<>>), FileOf(<<RecordOfCategory(c, "a")>>),
   FileOf(<<RecordOfCategory(c, "b"), RecordOfCategory(c, "a")>>), BadFile}

\* The files of a category subdirectory, in the order glob yields them.
Directory(p, c) ==
  IF Glob(p, c) THEN SeqsUpTo(FilesOf(c), MaxFiles) ELSE {<<>>}

\* data:extend(otherdata): table.insert(self, block) for every block
extend(d, otherdata) == d \o otherdata

\* data = {extend = data['extend']}
ResetData(d) == <<>>

RECURSIVE Execute(_, _, _)
Execute(d, fs, k) ==
  IF k > Len(fs) THEN [err |-> None, data |-> d]
  ELSE IF fs[k].bad THEN [err |-> "LuaError", data |-> d]
  ELSE Execute(extend(d, fs[k].records), fs, k + 1)

\* Mutant: the table is not reset before the files are executed.
loadPrototypes_NoReset(d, fs) == Execute(d, fs, 1)

loadPrototypes(d, fs) == Execute(ResetData(d), fs, 1)

\* data.items(): the indexed entries in order, and the entry 'extend'
TableItems(d) ==
  [k \in 1..(Len(d) + 1) |->
     IF k <= Len(d) THEN [index |-> k, name |-> None, value |-> d[k]]
     ELSE [index |-> 0, name |-> "extend", value |-> ExtendFn]]

NotExtend(x) == x.name # "extend"

luaData(d) ==
  LET tables == SelectSeq(TableItems(d), NotExtend)
  IN [k \in DOMAIN tables |-> tables[k].value]

InitReader ==
  /\ pc = "reader"
  /\ path \in Paths
  /\ data = <<>>
  /\ idx = 1
  /\ files = <<>>
  /\ yielded = <<>>
  /\ arg = NoArg
  /\ ret = NoRet
  /\ err = None
  /\ items = EmptyDict
  /\ fluids = EmptyDict
  /\ fuels = EmptyDict
  /\ groups = EmptyDict
  /\ subgroups = EmptyDict
  /\ recipes = EmptyDict
  /\ heap = <<>>
  /\ call = NoCall

\* reader.loadPrototypes(subdir), followed by a new reader.luaData()
LoadPrototypesCall ==
  /\ pc = "reader"
  /\ err = None
  /\ \E subdir \in Categories :
       \E fs \in Directory(path, subdir) :
         LET m == loadPrototypes(data, fs)
         IN /\ data' = m.data
            /\ err' = m.err
            /\ files' = fs
            /\ arg' = [op |-> "loadPrototypes", subdir |-> subdir,
                       stale |-> data # <<>>]
  /\ idx' = 1
  /\ yielded' = <<>>
  /\ UNCHANGED <<pc, items, fluids, fuels, groups, subgroups, recipes, heap,
                 call, path, ret>>

\* next() on the generator luaData() returned
LuaDataNext ==
  /\ pc = "reader"
  /\ err = None
  /\ idx <= Len(luaData(data))
  /\ yielded' = Append(yielded, luaData(data)[idx])
  /\ idx' = idx + 1
  /\ UNCHANGED <<pc, data, items, fluids, fuels, groups, subgroups, recipes,
                 heap, err, call, path, files, arg, ret>>

NextReader == LoadPrototypesCall \/ LuaDataNext

SpecReader == InitReader /\ [][NextReader]_vars

\* The records the files append, in order, up to a file that fails.
RECURSIVE Appended(_)
Appended(fs) ==
  IF fs = <<>> \/ fs[1].bad THEN <<>>
  ELSE fs[1].records \o Appended(Tail(fs))

Exhausted == idx > Len(luaData(data))

IsPrefix(s, t) == Len(s) <= Len(t) /\ \A k \in DOMAIN s : s[k] = t[k]

(***************************************************************************)
(* C14.  What luaData yields after loadPrototypes(subdir) is a prefix of   *)
(* the records the files of subdir append, in the order they append them,  *)
(* and all of them once the generator is exhausted; the function extend is *)
(* never yielded, nor is a record of a category loaded before.             *)
(***************************************************************************)
C14_YieldsWhatWasAppended ==
  /\ IsPrefix(yielded, Appended(files))
  /\ Exhausted => yielded = Appended(files)
  /\ \A k \in DOMAIN yielded :
       /\ yielded[k] # ExtendFn
       /\ yielded[k].type = arg.subdir

\* The generator is exhausted after a load of two files over a table that
\* held the records of an earlier load.
C14_Witness ==
  /\ arg.op = "loadPrototypes"
  /\ arg.stale
  /\ Len(files) = 2
  /\ files[1].records # <<>> /\ files[2].records # <<>>
  /\ Exhausted
  /\ Len(yielded) = Len(files[1].records) + Len(files[2].records)

(***************************************************************************)
(* producer.Module and producer.Producer.  A slot of Producer.modules      *)
(* holds a Module or None.  A plain Python number that takes part in unit  *)
(* arithmetic is an object of class float.                                 *)
(***************************************************************************)
MaxSlots == 2

Module(name, tier, energy, speed, productivity, pollution) ==
  [class |-> "Module", name |-> name, tier |-> tier, energy |-> energy,
   speed |-> speed, productivity |-> productivity, pollution |-> pollution]

EmptySlot ==
  [class |-> "NoneType", name |-> None, tier |-> 0, energy |-> Num(0),
   speed |-> Num(0), productivity |-> Num(0), pollution |-> Num(0)]

Float(x) == [class |-> "float", value |-> x]

Producer(class, name, craftSpeed, maxSlots, energyUsage, drain, pollution) ==
  [class |-> class, name |-> name, craftSpeed |-> craftSpeed,
   maxSlots |-> maxSlots, modules |-> [k \in 1..maxSlots |-> EmptySlot],
   energyUsage |-> energyUsage, drain |-> drain, pollution |-> pollution]

getattr(m, category) ==
  CASE category = "energy" -> m.energy
    [] category = "speed" -> m.speed
    [] category = "productivity" -> m.productivity
    [] category = "pollution" -> m.pollution

RECURSIVE AddModules(_, _, _, _)
AddModules(multiplier, modules, category, k) ==
  IF k > Len(modules) THEN multiplier
  ELSE AddModules(IF modules[k].class = "Module"
                    THEN Add(multiplier, getattr(modules[k], category))
                    ELSE multiplier,
                  modules, category, k + 1)

\* Mutant: the sum is returned as it is, not rounded.
getMultiplier_Unrounded(self, category) ==
  AddModules(Num(1), self.modules, category, 1)

\* Producer._getMultiplier
getMultiplier(self, category) ==
  Round6(AddModules(Num(1), self.modules, category, 1))

speedMultiplier(self) == getMultiplier(self, "speed")

energyMultiplier(self) == getMultiplier(self, "energy")

productivityMultiplier(self) == getMultiplier(self, "productivity")

pollutionMultiplier(self) == getMultiplier(self, "pollution")

(***************************************************************************)
(* SINumber.__add__ / __radd__ and __mul__ / __rmul__: the result is of    *)
(* the class of the unit operand and holds the operation on the values; of *)
(* two plain numbers the result is a plain number.                         *)
(***************************************************************************)
ResultClass(a, b) == IF HasValue(a) THEN a.class ELSE b.class

SIAdd(a, b) == [class |-> ResultClass(a, b), value |-> Add(a.value, b.value)]

SIMul(a, b) == [class |-> ResultClass(a, b), value |-> Mul(a.value, b.value)]

CraftError(e) ==
  [err |-> e, duration |-> Num(0), output |-> ListVal(<<>>),
   energy |-> Unit("Joule", Num(0)), pollution |-> Num(0)]

\* The result of a craft that takes craftTime seconds.
Crafted(self, recipe, craftTime, energyMult, power) ==
  [err |-> None, duration |-> craftTime, output |-> recipe.output,
   energy |-> SIMul(Unit("Joule", power.value), Float(craftTime)),
   pollution |-> Mul(Mul(Mul(self.pollution, pollutionMultiplier(self)),
                         energyMult), Div(craftTime, Num(60)))]

\* craft for a given speed, power and energy multiplier
CraftAt(self, recipe, speed, energyMult, power) ==
  IF recipe.time.kind # "num" THEN CraftError("TypeError")
  ELSE IF IsZero(speed) THEN CraftError("ZeroDivisionError")
  ELSE IF ~HasValue(power) THEN CraftError("AttributeError")
  ELSE Crafted(self, recipe, Div(Num(recipe.time.num), speed), energyMult,
               power)

PowerAt(self, energyMult) ==
  SIAdd(self.drain, SIMul(self.energyUsage, Float(energyMult)))

CraftWith(self, recipe, speed, energyMult) ==
  CraftAt(self, recipe, speed, energyMult, PowerAt(self, energyMult))

\* Mutant: the speed of the modules is left out of the crafting time.
craft_IgnoresSpeedModules(self, recipe) ==
  CraftWith(self, recipe, self.craftSpeed, energyMultiplier(self))

\* Producer.craft
craft(self, recipe) ==
  CraftWith(self, recipe, Mul(self.craftSpeed, speedMultiplier(self)),
            energyMultiplier(self))

(***************************************************************************)
(* Recipe.getInputByName and getOutputByName: the first Ingredient of the  *)
(* list whose product has the name, or None.  Iterating a field that holds *)
(* a number raises TypeError.                                              *)
(***************************************************************************)
NoIngredient == [what |-> None, count |-> 0, probability |-> 0]

Named(list, name) == {k \in DOMAIN list : list[k].what = name}

First(S) == CHOOSE k \in S : \A j \in S : k <= j

GetByName(field, name) ==
  IF field.kind # "list" THEN [err |-> "TypeError", obj |-> NoIngredient]
  ELSE IF Named(field.list, name) = {} THEN [err |-> None, obj |-> NoIngredient]
  ELSE [err |-> None, obj |-> field.list[First(Named(field.list, name))]]

getInputByName(recipe, name) == GetByName(recipe.input, name)

getOutputByName(recipe, name) == GetByName(recipe.output, name)

\* An argument a call does not pass.
Omitted == "<omitted>"

(***************************************************************************)
(* The rate queries of Producer.  itemName has no default; ingredient.count *)
(* is read before craft is called.                                         *)
(***************************************************************************)
ProductionRateOf(self, itemName, count, ingredient, c) ==
  IF itemName = Omitted THEN Raise("TypeError")
  ELSE IF ingredient.err # None THEN Raise(ingredient.err)
  ELSE IF ingredient.obj = NoIngredient THEN Raise("AttributeError")
  ELSE IF c.err # None THEN Raise(c.err)
  ELSE IF IsZero(c.duration) THEN Raise("ZeroDivisionError")
  ELSE Return_(Div(Mul(Mul(Num(count), Num(ingredient.obj.count)),
                       productivityMultiplier(self)), c.duration))

Producer_productionRate(self, recipe, itemName, count) ==
  ProductionRateOf(self, itemName, count, getOutputByName(recipe, itemName),
                   craft(self, recipe))

PerCraft(self, ingredient) ==
  Mul(Num(ingredient.obj.count), productivityMultiplier(self))

ProductionRateInverseOf(itemName, ips, ingredient, c, per) ==
  IF itemName = Omitted THEN Raise("TypeError")
  ELSE IF ingredient.err # None THEN Raise(ingredient.err)
  ELSE IF c.err # None THEN Raise(c.err)
  ELSE IF ingredient.obj = NoIngredient THEN Raise("AttributeError")
  ELSE IF IsZero(per) THEN Raise("ZeroDivisionError")
  ELSE Return_(Div(Mul(Num(ips), c.duration), per))

ProductionRateInverseFor(self, itemName, ips, ingredient, c) ==
  ProductionRateInverseOf(itemName, ips, ingredient, c,
                          PerCraft(self, ingredient))

Producer_productionRateInverse(self, recipe, itemName, ips) ==
  ProductionRateInverseFor(self, itemName, ips,
                           getOutputByName(recipe, itemName),
                           craft(self, recipe))

ConsumptionRateOf(itemName, count, ingredient, c) ==
  IF itemName = Omitted THEN Raise("TypeError")
  ELSE IF ingredient.err # None THEN Raise(ingredient.err)
  ELSE IF ingredient.obj = NoIngredient THEN Raise("AttributeError")
  ELSE IF c.err # None THEN Raise(c.err)
  ELSE IF IsZero(c.duration) THEN Raise("ZeroDivisionError")
  ELSE Return_(Div(Mul(Num(count), Num(ingredient.obj.count)), c.duration))

Producer_consumptionRate(self, recipe, itemName, count) ==
  ConsumptionRateOf(itemName, count, getInputByName(recipe, itemName),
                    craft(self, recipe))

ConsumptionRateInverseOf(itemName, ips, ingredient, c) ==
  IF itemName = Omitted THEN Raise("TypeError")
  ELSE IF ingredient.err # None THEN Raise(ingredient.err)
  ELSE IF c.err # None THEN Raise(c.err)
  ELSE IF ingredient.obj = NoIngredient THEN Raise("AttributeError")
  ELSE IF ingredient.obj.count = 0 THEN Raise("ZeroDivisionError")
  ELSE Return_(Div(Mul(Num(ips), c.duration), Num(ingredient.obj.count)))

Producer_consumptionRateInverse(self, recipe, itemName, ips) ==
  ConsumptionRateInverseOf(itemName, ips, getInputByName(recipe, itemName),
                           craft(self, recipe))

(***************************************************************************)
(* The rate queries of MiningDrill.  itemName defaults to None, except in  *)
(* consumptionRateInverse, where it has no default; a None itemName is     *)
(* replaced by the name of the only output, except in                      *)
(* consumptionRateInverse, which assigns that name to another variable and *)
(* passes None on.                                                         *)
(***************************************************************************)
Default(itemName) == IF itemName = Omitted THEN None ELSE itemName

\* The error of the lookup of the default name, or None.
DefaultNameError(recipe) ==
  IF recipe.output.kind # "list" THEN "TypeError"
  ELSE IF Len(recipe.output.list) # 1 THEN "ValueError"
  ELSE None

DefaultName(recipe) == recipe.output.list[1].what

MiningDrill_productionRate(self, recipe, itemName, count) ==
  IF Default(itemName) # None
    THEN Producer_productionRate(self, recipe, itemName, count)
  ELSE IF DefaultNameError(recipe) # None THEN Raise(DefaultNameError(recipe))
  ELSE Producer_productionRate(self, recipe, DefaultName(recipe), count)

MiningDrill_productionRateInverse(self, recipe, itemName, ips) ==
  IF Default(itemName) # None
    THEN Producer_productionRateInverse(self, recipe, itemName, ips)
  ELSE IF DefaultNameError(recipe) # None THEN Raise(DefaultNameError(recipe))
  ELSE Producer_productionRateInverse(self, recipe, DefaultName(recipe), ips)

MiningDrill_consumptionRate(self, recipe, itemName, count) ==
  IF Default(itemName) # None
    THEN Producer_consumptionRate(self, recipe, itemName, count)
  ELSE IF DefaultNameError(recipe) # None THEN Raise(DefaultNameError(recipe))
  ELSE Producer_consumptionRate(self, recipe, DefaultName(recipe), count)

MiningDrill_consumptionRateInverse(self, recipe, itemName, ips) ==
  IF itemName = Omitted THEN Raise("TypeError")
  ELSE IF itemName # None
    THEN Producer_consumptionRateInverse(self, recipe, itemName, ips)
  ELSE IF DefaultNameError(recipe) # None THEN Raise(DefaultNameError(recipe))
  ELSE Producer_consumptionRateInverse(self, recipe, None, ips)

(***************************************************************************)
(* Method resolution: MiningDrill overrides the four rate queries and      *)
(* rates; BurnerProducer overrides rates.                                  *)
(***************************************************************************)
\* MiningDrill, and BurnerMiningDrill(MiningDrill, BurnerProducer), whose
\* methods are MiningDrill's: the class body is empty and MiningDrill comes
\* first in its method resolution order.
IsMiningDrill(self) == self.class \in {"MiningDrill", "BurnerMiningDrill"}

productionRate(self, recipe, itemName, count) ==
  IF IsMiningDrill(self)
    THEN MiningDrill_productionRate(self, recipe, itemName, count)
    ELSE Producer_productionRate(self, recipe, itemName, count)

productionRateInverse(self, recipe, itemName, ips) ==
  IF IsMiningDrill(self)
    THEN MiningDrill_productionRateInverse(self, recipe, itemName, ips)
    ELSE Producer_productionRateInverse(self, recipe, itemName, ips)

consumptionRate(self, recipe, itemName, count) ==
  IF IsMiningDrill(self)
    THEN MiningDrill_consumptionRate(self, recipe, itemName, count)
    ELSE Producer_consumptionRate(self, recipe, itemName, count)

consumptionRateInverse(self, recipe, itemName, ips) ==
  IF IsMiningDrill(self)
    THEN MiningDrill_consumptionRateInverse(self, recipe, itemName, ips)
    ELSE Producer_consumptionRateInverse(self, recipe, itemName, ips)

(***************************************************************************)
(* Producer.rates, MiningDrill.rates and BurnerProducer.rates.  The report *)
(* is a dict: keys is the set of its keys, and a key it lacks reads 0.     *)
(***************************************************************************)
RatesError(e) ==
  [err |-> e, keys |-> {}, producers |-> 0, consumed |-> <<>>,
   produced |-> <<>>, energy |-> Unit("Watt", Num(0)), pollution |-> Num(0),
   fuel |-> Num(0)]

\* The errors the rate queries of a loop raise, in the order of the loop.
Errors(rs) == {k \in DOMAIN rs : rs[k].err # None}

ConsumptionRates(self, recipe, count) ==
  [k \in DOMAIN recipe.input.list |->
     consumptionRate(self, recipe, recipe.input.list[k].what, count)]

ProductionRates(self, recipe, count) ==
  [k \in DOMAIN recipe.output.list |->
     productionRate(self, recipe, recipe.output.list[k].what, count)]

RatesOf(recipe, count, craftResult, cs, ps) ==
  IF craftResult.err # None THEN RatesError(craftResult.err)
  ELSE IF recipe.input.kind # "list" THEN RatesError("TypeError")
  ELSE IF Errors(cs) # {} THEN RatesError(cs[First(Errors(cs))].err)
  ELSE IF recipe.output.kind # "list" THEN RatesError("TypeError")
  ELSE IF Errors(ps) # {} THEN RatesError(ps[First(Errors(ps))].err)
  ELSE IF IsZero(craftResult.duration) THEN RatesError("ZeroDivisionError")
  ELSE [err |-> None,
        keys |-> {"producers", "consumed", "produced", "energy", "pollution"},
        producers |-> count,
        consumed |-> [k \in DOMAIN cs |-> <<recipe.input.list[k], cs[k].val>>],
        produced |-> [k \in DOMAIN ps |-> <<recipe.output.list[k], ps[k].val>>],
        energy |-> Unit("Watt", Mul(Div(craftResult.energy.value,
                                        craftResult.duration), Num(count))),
        pollution |-> Mul(Div(craftResult.pollution, craftResult.duration),
                          Num(count)),
        fuel |-> Num(0)]

Producer_rates(self, recipe, count) ==
  RatesOf(recipe, count, craft(self, recipe),
          ConsumptionRates(self, recipe, count),
          ProductionRates(self, recipe, count))

\* if not rateDict['consumed']: rateDict['consumed'] = rateDict['produced']
ConsumedAsProduced(rateDict) ==
  IF rateDict.err # None THEN rateDict
  ELSE IF rateDict.consumed = <<>>
    THEN [rateDict EXCEPT !.consumed = rateDict.produced]
  ELSE rateDict

MiningDrill_rates(self, recipe, count) ==
  ConsumedAsProduced(Producer_rates(self, recipe, count))

\* rateDict['fuel'] = rateDict['energy'].value / fuel.energy.value
WithFuel(rateDict, fuel) ==
  IF rateDict.err # None THEN rateDict
  ELSE IF ~HasValue(fuel.energy) THEN RatesError("AttributeError")
  ELSE IF IsZero(fuel.energy.value) THEN RatesError("ZeroDivisionError")
  ELSE [rateDict EXCEPT
          !.keys = @ \cup {"fuel"},
          !.fuel = Div(rateDict.energy.value, fuel.energy.value)]

BurnerProducer_rates(self, recipe, fuel, count) ==
  WithFuel(Producer_rates(self, recipe, count), fuel)

NoFuel == Fuel(None, Str(None))

\* BurnerMiningDrill.rates is MiningDrill.rates(self, recipe, count=1), and
\* the super().rates in it is BurnerProducer.rates.  rates(recipe, fuel,
\* count) passes three arguments to a method that takes two.
BurnerMiningDrill_rates(self, recipe, fuel, count) == RatesError("TypeError")

\* rates(recipe, fuel): MiningDrill.rates binds the fuel to count and passes
\* it on to BurnerProducer.rates, which binds it to fuel; count is 1 there.
BurnerMiningDrill_rates_fuel(self, recipe, fuel) ==
  ConsumedAsProduced(BurnerProducer_rates(self, recipe, fuel, 1))

rates(self, recipe, fuel, count) ==
  IF self.class = "BurnerProducer"
    THEN BurnerProducer_rates(self, recipe, fuel, count)
  ELSE IF self.class = "BurnerMiningDrill"
    THEN BurnerMiningDrill_rates(self, recipe, fuel, count)
  ELSE IF IsMiningDrill(self) THEN MiningDrill_rates(self, recipe, count)
  ELSE Producer_rates(self, recipe, count)

(***************************************************************************)
(* A producer and a recipe used directly.  The producer is as its          *)
(* constructor leaves it; modules are installed by assignment to a slot;   *)
(* every query is called with any of the argument values below, and ret    *)
(* holds its result until the caller resumes.                              *)
(***************************************************************************)
ModulePool ==
  {Module("speed", 1, Frac(5, 10), Frac(2, 10), Num(0), Num(0)),
   Module("productivity", 1, Frac(4, 10), Num(0), Frac(1, 10), Frac(5, 100)),
   Module("tiny", 1, Num(0), Normal(1, 1, -7), Num(0), Num(0))}

ProducerClasses ==
  {"Producer", "BurnerProducer", "MiningDrill", "BurnerMiningDrill"}

\* Watt('75k') and Watt('2.5k'); a drain of 0 is a plain number
Producers ==
  {Producer(c, "producer", s, MaxSlots, Unit("Watt", Num(75000)), d, Num(4)) :
     <<c, s, d>> \in ProducerClasses \X {Num(1), Frac(1, 2)}
                       \X {Unit("Watt", Num(2500)), Float(Num(0))}}

ProducerRecipes ==
  {Recipe(NumVal(2), ListVal(<<Ingredient("i1", 2, NilNum)>>),
          ListVal(<<Ingredient("i2", 1, NilNum)>>)),
   Recipe(NumVal(1), ListVal(<<Ingredient("i1", 2, NilNum),
                               Ingredient("f1", 1, NilNum)>>),
          ListVal(<<Ingredient("i2", 1, NilNum), Ingredient("i1", 3, 50)>>)),
   Recipe(NumVal(2), ListVal(<<>>), ListVal(<<Ingredient("i1", 1, NilNum)>>)),
   Recipe(NumVal(3), ListVal(<<>>), ListVal(<<>>)),
   Recipe(NumVal(2), ListVal(<<Ingredient("i1", 2, NilNum)>>),
          ListVal(<<Ingredient("i1", 1, NilNum)>>))}

\* A Fuel made with a Joule, and a Fuel as makeFuel makes it.
ProducerFuels ==
  {Fuel("coal", Unit("Joule", Normal(4, 1, 6))),
   makeFuel([name |-> "i1", fuel_value |-> "8MJ"])}

ItemNameArgs == {Omitted, None, "i1", "i2"}

Counts == {1, 3}

Ret(op, name, count, fuel, e, val) ==
  [op |-> op, name |-> name, count |-> count, fuel |-> fuel, err |-> e,
   val |-> val]

loaderVars ==
  <<data, idx, items, fluids, fuels, groups, subgroups, recipes, heap,
    err, call, path, files, yielded>>

InitProducer ==
  /\ pc = "producer"
  /\ arg \in [self : Producers, recipe : ProducerRecipes]
  /\ ret = NoRet
  /\ path = {}
  /\ data = <<>>
  /\ idx = 1
  /\ files = <<>>
  /\ yielded = <<>>
  /\ err = None
  /\ items = EmptyDict
  /\ fluids = EmptyDict
  /\ fuels = EmptyDict
  /\ groups = EmptyDict
  /\ subgroups = EmptyDict
  /\ recipes = EmptyDict
  /\ heap = <<>>
  /\ call = NoCall

\* producer.modules[k] = m
InstallModule ==
  /\ pc = "producer"
  /\ \E k \in 1..MaxSlots, m \in ModulePool \cup {EmptySlot} :
       arg' = [arg EXCEPT !.self.modules[k] = m]
  /\ ret' = NoRet
  /\ UNCHANGED <<pc, loaderVars>>

MultiplierCall ==
  /\ pc = "producer"
  /\ \E category \in {"speed", "energy", "productivity", "pollution"} :
       ret' = Ret("multiplier", category, 1, NoFuel, None,
                  getMultiplier(arg.self, category))
  /\ pc' = "returned"
  /\ UNCHANGED <<arg, loaderVars>>

CraftCall ==
  /\ pc = "producer"
  /\ \E c \in {craft(arg.self, arg.recipe)} :
       ret' = Ret("craft", None, 1, NoFuel, c.err, c)
  /\ pc' = "returned"
  /\ UNCHANGED <<arg, loaderVars>>

ProductionRateCall ==
  /\ pc = "producer"
  /\ \E itemName \in ItemNameArgs, count \in Counts :
       \E m \in {productionRate(arg.self, arg.recipe, itemName, count)} :
         ret' = Ret("productionRate", itemName, count, NoFuel,
             m.err, m.val)
  /\ pc' = "returned"
  /\ UNCHANGED <<arg, loaderVars>>

ProductionRateInverseCall ==
  /\ pc = "producer"
  /\ \E itemName \in ItemNameArgs, ips \in Counts :
       \E m \in {productionRateInverse(arg.self, arg.recipe, itemName, ips)} :
         ret' = Ret("productionRateInverse", itemName, ips, NoFuel,
             m.err, m.val)
  /\ pc' = "returned"
  /\ UNCHANGED <<arg, loaderVars>>

ConsumptionRateCall ==
  /\ pc = "producer"
  /\ \E itemName \in ItemNameArgs, count \in Counts :
       \E m \in {consumptionRate(arg.self, arg.recipe, itemName, count)} :
         ret' = Ret("consumptionRate", itemName, count, NoFuel,
             m.err, m.val)
  /\ pc' = "returned"
  /\ UNCHANGED <<arg, loaderVars>>

ConsumptionRateInverseCall ==
  /\ pc = "producer"
  /\ \E itemName \in ItemNameArgs, ips \in Counts :
       \E m \in {consumptionRateInverse(arg.self, arg.recipe, itemName, ips)} :
         ret' = Ret("consumptionRateInverse", itemName, ips, NoFuel,
             m.err, m.val)
  /\ pc' = "returned"
  /\ UNCHANGED <<arg, loaderVars>>

\* rates(recipe, count), and rates(recipe, fuel, count) on a BurnerProducer
RatesCall ==
  /\ pc = "producer"
  /\ \E count \in Counts :
       \E fuel \in IF arg.self.class \in {"BurnerProducer", "BurnerMiningDrill"}
                     THEN ProducerFuels
                   ELSE {NoFuel} :
         \E m \in {rates(arg.self, arg.recipe, fuel, count)} :
           ret' = Ret("rates", None, count, fuel, m.err, m)
  /\ pc' = "returned"
  /\ UNCHANGED <<arg, loaderVars>>

\* rates(recipe, fuel) on a BurnerMiningDrill, count left out
RatesOfFuelCall ==
  /\ pc = "producer"
  /\ arg.self.class = "BurnerMiningDrill"
  /\ \E fuel \in ProducerFuels :
       \E m \in {BurnerMiningDrill_rates_fuel(arg.self, arg.recipe, fuel)} :
         ret' = Ret("rates_fuel", None, 1, fuel, m.err, m)
  /\ pc' = "returned"
  /\ UNCHANGED <<arg, loaderVars>>

\* The caller has taken the result and may call again.
Resume ==
  /\ pc = "returned"
  /\ pc' = "producer"
  /\ ret' = NoRet
  /\ UNCHANGED <<arg, loaderVars>>

NextProducer ==
  \/ InstallModule
  \/ MultiplierCall
  \/ CraftCall
  \/ ProductionRateCall
  \/ ProductionRateInverseCall
  \/ ConsumptionRateCall
  \/ ConsumptionRateInverseCall
  \/ RatesCall
  \/ RatesOfFuelCall
  \/ Resume

SpecProducer == InitProducer /\ [][NextProducer]_vars

(***************************************************************************)
(* Vocabulary of the properties of producers.                              *)
(***************************************************************************)
Installed(self) == {k \in DOMAIN self.modules : self.modules[k].class = "Module"}

InstalledNames(self) == {self.modules[k].name : k \in Installed(self)}

RECURSIVE SumOver(_, _, _)
SumOver(self, category, S) ==
  IF S = {} THEN Num(0)
  ELSE LET k == CHOOSE j \in S : TRUE
       IN Add(getattr(self.modules[k], category),
              SumOver(self, category, S \ {k}))

\* 1 plus the sum of the field over the installed modules
OnePlusSum(self, category) ==
  Add(Num(1), SumOver(self, category, Installed(self)))

ReturnedFrom(op) == pc = "returned" /\ ret.op = op

(***************************************************************************)
(* C15 as stated.  Each multiplier a producer returns equals 1 plus the    *)
(* sum of the field over its installed modules.                            *)
(***************************************************************************)
C15_MultipliersAreSums ==
  ReturnedFrom("multiplier") => ret.val = OnePlusSum(arg.self, ret.name)

(***************************************************************************)
(* C15, amended.  Each multiplier a producer returns equals 1 plus the sum *)
(* of the field over its installed modules, rounded to 6 decimals; slots   *)
(* holding None contribute nothing; without modules every multiplier is 1; *)
(* with a speed module (+0.2) and a productivity module (+0.1) the speed   *)
(* multiplier is 1.2 and the productivity multiplier is 1.1.               *)
(***************************************************************************)
C15_MultipliersAreRoundedSums ==
  ReturnedFrom("multiplier") =>
    /\ ret.val = Round6(OnePlusSum(arg.self, ret.name))
    /\ Installed(arg.self) = {} => ret.val = Num(1)
    /\ (InstalledNames(arg.self) = {"speed", "productivity"}
          /\ Cardinality(Installed(arg.self)) = 2) =>
         /\ ret.name = "speed" => ret.val = Frac(12, 10)
         /\ ret.name = "productivity" => ret.val = Frac(11, 10)

\* The speed multiplier of a producer holding a speed module and a module
\* whose speed effect is below the rounding step.
C15_Witness ==
  /\ ReturnedFrom("multiplier")
  /\ ret.name = "speed"
  /\ InstalledNames(arg.self) = {"speed", "tiny"}
  /\ ret.val = Frac(12, 10)
  /\ ret.val # OnePlusSum(arg.self, "speed")

(***************************************************************************)
(* What the rate queries are expected to return, written from the modules  *)
(* and the recipe alone.                                                   *)
(***************************************************************************)
MultiplierOf(self, category) == Round6(OnePlusSum(self, category))

DurationOf(self, recipe) ==
  Div(Num(recipe.time.num), Mul(self.craftSpeed, MultiplierOf(self, "speed")))

Names(list) == {list[k].what : k \in DOMAIN list}

\* The count of the first ingredient of the list that has the name.
CountOf(list, name) ==
  LET k == CHOOSE j \in DOMAIN list :
             /\ list[j].what = name
             /\ \A i \in 1..(j - 1) : list[i].what # name
  IN Num(list[k].count)

ExampleRecipe ==
  Recipe(NumVal(2), ListVal(<<Ingredient("i1", 2, NilNum)>>),
         ListVal(<<Ingredient("i2", 1, NilNum)>>))

(***************************************************************************)
(* C16.  For a producer and a recipe made of a time, an input list and an  *)
(* output list: craft returns duration = time / (craftSpeed x speed        *)
(* multiplier); productionRate(recipe, name, n) of an output name returns  *)
(* n x count x productivity multiplier / duration; consumptionRate(recipe, *)
(* name, n) of an input name returns n x count / duration.  With time 2,   *)
(* input count 2, output count 1, craftSpeed 1 and no modules the duration *)
(* is 2, the production rate 1/2 and the consumption rate 1.               *)
(***************************************************************************)
C16_CraftAndRateFormulas ==
  /\ ReturnedFrom("craft") =>
       /\ ret.err = None
       /\ ret.val.duration = DurationOf(arg.self, arg.recipe)
       /\ (arg.recipe = ExampleRecipe /\ arg.self.craftSpeed = Num(1)
             /\ Installed(arg.self) = {}) => ret.val.duration = Num(2)
  /\ (ReturnedFrom("productionRate")
        /\ ret.name \in Names(arg.recipe.output.list)) =>
       /\ ret.err = None
       /\ ret.val = Div(Mul(Mul(Num(ret.count),
                                CountOf(arg.recipe.output.list, ret.name)),
                            MultiplierOf(arg.self, "productivity")),
                        DurationOf(arg.self, arg.recipe))
       /\ (arg.recipe = ExampleRecipe /\ arg.self.craftSpeed = Num(1)
             /\ Installed(arg.self) = {} /\ ret.count = 1) =>
            ret.val = Frac(1, 2)
  /\ (ReturnedFrom("consumptionRate")
        /\ ret.name \in Names(arg.recipe.input.list)) =>
       /\ ret.err = None
       /\ ret.val = Div(Mul(Num(ret.count),
                            CountOf(arg.recipe.input.list, ret.name)),
                        DurationOf(arg.self, arg.recipe))
       /\ (arg.recipe = ExampleRecipe /\ arg.self.craftSpeed = Num(1)
             /\ Installed(arg.self) = {} /\ ret.count = 1) =>
            ret.val = Num(1)

\* Three producers of craftSpeed 1 holding one speed module make 9/5 of the
\* product of the example recipe per second.
C16_Witness ==
  /\ ReturnedFrom("productionRate")
  /\ arg.recipe = ExampleRecipe
  /\ arg.self.craftSpeed = Num(1)
  /\ InstalledNames(arg.self) = {"speed"}
  /\ Cardinality(Installed(arg.self)) = 1
  /\ ret.name = "i2"
  /\ ret.count = 3
  /\ ret.err = None
  /\ ret.val = Frac(9, 5)

(***************************************************************************)
(* The report rates is expected to return for count producers.             *)
(***************************************************************************)
ConsumedOf(self, recipe, count) ==
  [k \in DOMAIN recipe.input.list |->
     <<recipe.input.list[k],
       Div(Mul(Num(count),
               CountOf(recipe.input.list, recipe.input.list[k].what)),
           DurationOf(self, recipe))>>]

ProducedOf(self, recipe, count) ==
  [k \in DOMAIN recipe.output.list |->
     <<recipe.output.list[k],
       Div(Mul(Mul(Num(count),
                   CountOf(recipe.output.list, recipe.output.list[k].what)),
               MultiplierOf(self, "productivity")),
           DurationOf(self, recipe))>>]

\* (drain + energyUsage x energy multiplier) x count, in watts
EnergyOf(self, count) ==
  Unit("Watt",
       Mul(Add(self.drain.value,
               Mul(self.energyUsage.value, MultiplierOf(self, "energy"))),
           Num(count)))

\* pollution per minute x pollution multiplier x energy multiplier / 60 x count
PollutionOf(self, count) ==
  Mul(Div(Mul(Mul(self.pollution, MultiplierOf(self, "pollution")),
              MultiplierOf(self, "energy")), Num(60)),
      Num(count))

ReportKeys == {"producers", "consumed", "produced", "energy", "pollution"}

IsReport(self, recipe, count, report) ==
  /\ report.err = None
  /\ report.producers = count
  /\ report.consumed = ConsumedOf(self, recipe, count)
  /\ report.produced = ProducedOf(self, recipe, count)
  /\ report.energy = EnergyOf(self, count)
  /\ report.pollution = PollutionOf(self, count)

(***************************************************************************)
(* C17.  Producer.rates(recipe, n) returns a report with producers = n,    *)
(* one consumed entry per input and one produced entry per output, in the  *)
(* order of the recipe, each paired with the rate of that product for n    *)
(* producers, and the energy and pollution per second of n producers;      *)
(* BurnerProducer.rates(recipe, fuel, n) returns the same report with the  *)
(* key fuel added, holding the energy rate divided by the fuel's energy.   *)
(***************************************************************************)
C17_RatesReport ==
  /\ (ReturnedFrom("rates") /\ arg.self.class = "Producer") =>
       /\ IsReport(arg.self, arg.recipe, ret.count, ret.val)
       /\ ret.val.keys = ReportKeys
  /\ (ReturnedFrom("rates") /\ arg.self.class = "BurnerProducer") =>
       /\ IsReport(arg.self, arg.recipe, ret.count, ret.val)
       /\ ret.val.keys = ReportKeys \cup {"fuel"}
       /\ ret.val.fuel = Div(EnergyOf(arg.self, ret.count).value,
                             ret.fuel.energy.value)

(***************************************************************************)
(* The four rate queries by name, a result being the pair of its error and *)
(* its value.                                                              *)
(***************************************************************************)
RateQueries ==
  {"productionRate", "productionRateInverse", "consumptionRate",
   "consumptionRateInverse"}

Query(op, self, recipe, itemName, n) ==
  CASE op = "productionRate" -> productionRate(self, recipe, itemName, n)
    [] op = "productionRateInverse" ->
         productionRateInverse(self, recipe, itemName, n)
    [] op = "consumptionRate" -> consumptionRate(self, recipe, itemName, n)
    [] op = "consumptionRateInverse" ->
         consumptionRateInverse(self, recipe, itemName, n)

ReturnedFromQuery == pc = "returned" /\ ret.op \in RateQueries

Outputs(recipe) == recipe.output.list

(***************************************************************************)
(* C18.  A rate query of a MiningDrill called without a product name       *)
(* returns, when the recipe has exactly one output, what the same query    *)
(* returns for the name of that output, and raises the ambiguous-product   *)
(* error (ValueError) otherwise; a query called with a name never raises   *)
(* that error.                                                             *)
(***************************************************************************)
C18_DefaultProductName ==
  (ReturnedFromQuery /\ IsMiningDrill(arg.self)) =>
    /\ ret.name = Omitted =>
         IF Len(Outputs(arg.recipe)) = 1
           THEN LET named == Query(ret.op, arg.self, arg.recipe,
                                   Outputs(arg.recipe)[1].what, ret.count)
                IN ret.err = named.err /\ ret.val = named.val
           ELSE ret.err = "ValueError"
    /\ ret.name \notin {Omitted, None} => ret.err # "ValueError"

\* A recipe that declares no inputs and exactly one output.
IsExtraction(recipe) ==
  /\ recipe.input.list = <<>>
  /\ Len(Outputs(recipe)) = 1

(***************************************************************************)
(* C19.  For a MiningDrill and a recipe with no inputs and exactly one     *)
(* output the reported consumption equals the reported production: the     *)
(* consumed entries of rates(recipe, n) are its produced entries, and      *)
(* consumptionRate(recipe, count=n) without a product name returns what    *)
(* productionRate(recipe, count=n) returns.                                *)
(***************************************************************************)
C19_ConsumptionEqualsProduction ==
  (pc = "returned" /\ IsMiningDrill(arg.self) /\ IsExtraction(arg.recipe)) =>
    /\ ret.op = "rates" =>
         /\ ret.err = None
         /\ ret.val.consumed = ret.val.produced
         /\ ret.val.produced # <<>>
    /\ (ret.op = "consumptionRate" /\ ret.name = Omitted) =>
         LET produced == productionRate(arg.self, arg.recipe, Omitted, ret.count)
         IN /\ produced.err = None
            /\ ret.err = None
            /\ ret.val = produced.val

(***************************************************************************)
(* util.SINumber.__init__ on a str.  A str is the sequence of its          *)
(* characters.  casefold and isalpha are those of the characters that      *)
(* occur; float reads a decimal numeral: digits with at most one point and *)
(* at least one digit.                                                     *)
(***************************************************************************)
MaxChars == 4

DigitChars == {"0", "1", "2", "3", "4", "5", "6", "7", "8", "9"}

DigitValue(c) ==
  CASE c = "0" -> 0 [] c = "1" -> 1 [] c = "2" -> 2 [] c = "3" -> 3
    [] c = "4" -> 4 [] c = "5" -> 5 [] c = "6" -> 6 [] c = "7" -> 7
    [] c = "8" -> 8 [] c = "9" -> 9

LowerChars == {"k", "m", "g", "t", "w", "j", "x"}

UpperChars == {"K", "M", "G", "T", "W", "J", "X"}

casefold(c) ==
  CASE c = "K" -> "k" [] c = "M" -> "m" [] c = "G" -> "g" [] c = "T" -> "t"
    [] c = "W" -> "w" [] c = "J" -> "j" [] c = "X" -> "x"
    [] OTHER -> c

isalpha(c) == c \in LowerChars \cup UpperChars

IsDigit(c) == c \in DigitChars

RECURSIVE IntOf(_)
IntOf(s) ==
  IF s = <<>> THEN 0
  ELSE IntOf(SubSeq(s, 1, Len(s) - 1)) * 10 + DigitValue(s[Len(s)])

Points(s) == {k \in DOMAIN s : s[k] = "."}

\* float(s): its error, or the number read
float(s) ==
  IF \E k \in DOMAIN s : ~IsDigit(s[k]) /\ s[k] # "." THEN Raise("ValueError")
  ELSE IF Cardinality(Points(s)) > 1 THEN Raise("ValueError")
  ELSE IF SelectSeq(s, IsDigit) = <<>> THEN Raise("ValueError")
  ELSE LET decimals == IF Points(s) = {} THEN 0
                       ELSE Len(s) - (CHOOSE k \in Points(s) : TRUE)
       IN Return_(Normal(IntOf(SelectSeq(s, IsDigit)), 1, 0 - decimals))

\* SINumber._suffixTable
suffixTable ==
  [k |-> Normal(1, 1, 3), m |-> Normal(1, 1, 6), g |-> Normal(1, 1, 9),
   t |-> Normal(1, 1, 12)]

\* An attribute the constructor has not set.
Unset == "<unset>"

SIError(e, msg) ==
  [err |-> e, msg |-> msg, val |-> Unit("SINumber", Num(0)),
   origSuffix |-> Unset]

SIValue(class, value, origSuffix) ==
  [err |-> None, msg |-> None, val |-> Unit(class, value),
   origSuffix |-> origSuffix]

Last(s) == s[Len(s)]

ButLast(s) == SubSeq(s, 1, Len(s) - 1)

\* Mutant: the base symbol is not stripped.
SINumber_init_KeepsSymbol(class, baseSymbol, units) ==
  LET suffix == casefold(Last(units))
      scalar == IF isalpha(suffix) THEN float(ButLast(units)) ELSE float(units)
  IN IF units = <<>> THEN SIError("IndexError", "string index out of range")
     ELSE IF scalar.err # None
       THEN SIError("ValueError", "units string must contain a valid number")
     ELSE IF ~isalpha(suffix) THEN SIValue(class, scalar.val, Unset)
     ELSE IF suffix \in DOMAIN suffixTable
       THEN SIValue(class, Mul(scalar.val, suffixTable[suffix]), suffix)
     ELSE SIError("ValueError", "Invalid suffix")

\* SINumber.__init__(self, units, baseSymbol) for a str
SINumber_init(class, baseSymbol, units) ==
  LET stripped == IF casefold(Last(units)) = casefold(baseSymbol)
                    THEN ButLast(units) ELSE units
      suffix == casefold(Last(stripped))
      scalar == IF isalpha(suffix) THEN float(ButLast(stripped))
                ELSE float(stripped)
  IN IF units = <<>> THEN SIError("IndexError", "string index out of range")
     ELSE IF stripped = <<>>
       THEN SIError("ValueError", "units string cannot be empty")
     ELSE IF scalar.err # None
       THEN SIError("ValueError", "units string must contain a valid number")
     ELSE IF ~isalpha(suffix) THEN SIValue(class, scalar.val, Unset)
     ELSE IF suffix \in DOMAIN suffixTable
       THEN SIValue(class, Mul(scalar.val, suffixTable[suffix]), suffix)
     ELSE SIError("ValueError", "Invalid suffix")

\* Watt.__init__ and Joule.__init__
BaseSymbolOf(class) == IF class = "Watt" THEN "W" ELSE "J"

NewUnit(class, units) == SINumber_init(class, BaseSymbolOf(class), units)

(***************************************************************************)
(* A Watt or a Joule is constructed from a string made of a run of digits  *)
(* and points, then at most one letter, then at most one unit symbol.      *)
(***************************************************************************)
NumeralChars == {"0", "1", "8", "."}

RECURSIVE StringsUpTo(_, _)
StringsUpTo(C, n) ==
  IF n = 0 THEN {<<>>}
  ELSE LET S == StringsUpTo(C, n - 1)
       IN S \cup {Append(s, c) : s \in S, c \in C}

OneOrNone(C) == {<<>>} \cup {<<c>> : c \in C}

SuffixChars == {"k", "m", "g", "t", "K", "M", "G", "T", "x"}

SymbolChars == {"W", "w", "J", "j"}

UnitClasses == {"Watt", "Joule"}

InitUnits ==
  /\ pc = "units"
  /\ arg \in [op : {"units"}, class : UnitClasses,
              number : StringsUpTo(NumeralChars, MaxChars),
              suffix : OneOrNone(SuffixChars),
              symbol : OneOrNone(SymbolChars)]
  /\ ret = NoRet
  /\ path = {}
  /\ data = <<>>
  /\ idx = 1
  /\ files = <<>>
  /\ yielded = <<>>
  /\ err = None
  /\ items = EmptyDict
  /\ fluids = EmptyDict
  /\ fuels = EmptyDict
  /\ groups = EmptyDict
  /\ subgroups = EmptyDict
  /\ recipes = EmptyDict
  /\ heap = <<>>
  /\ call = NoCall

UnitsOf(a) == a.number \o a.suffix \o a.symbol

\* Watt(units) or Joule(units)
NewUnitCall ==
  /\ pc = "units"
  /\ \E m \in {NewUnit(arg.class, UnitsOf(arg))} :
       ret' = [op |-> "units", err |-> m.err, msg |-> m.msg, val |-> m.val,
               origSuffix |-> m.origSuffix]
  /\ pc' = "returned"
  /\ UNCHANGED <<arg, loaderVars>>

(***************************************************************************)
(* SINumber.__str__.  The text is the reduced value printed to 4           *)
(* significant digits, a suffix letter and the base symbol; it is kept as  *)
(* these three parts.  floor(log10(|x|)) is computed on the exact value.   *)
(***************************************************************************)
RECURSIVE Digits(_)
Digits(n) == IF n < 10 THEN 1 ELSE 1 + Digits(n \div 10)

\* floor(log10(n / d)) for n, d > 0
FloorLog10Ratio(n, d, k) ==
  IF k >= 0 THEN (IF n >= d * Pow10(k) THEN k ELSE k - 1)
  ELSE (IF n * Pow10(0 - k) >= d THEN k ELSE k - 1)

\* math.floor(math.log10(abs(x))) for x # 0
FloorLog10(x) ==
  x.e + FloorLog10Ratio(Abs(x.n), x.d, Digits(Abs(x.n)) - Digits(x.d))

RoundedAt(scaled, power) ==
  Normal(RoundQuotient(
           scaled.n * Pow10(IF scaled.e > 0 THEN scaled.e ELSE 0),
           scaled.d * Pow10(IF scaled.e < 0 THEN -scaled.e ELSE 0)),
         1, power - 3)

SigAt(x, power) == RoundedAt(Mul(x, Normal(1, 1, 3 - power)), power)

\* format(x, '.4'): x to 4 significant digits
Sig4(x) == IF IsZero(x) THEN x ELSE SigAt(x, FloorLog10(x))

Text(number, suffix, symbol) ==
  [number |-> number, suffix |-> suffix, symbol |-> symbol]

\* ' kMGT'[d] if d > 0 else ''
SuffixLetter(d) == IF d > 0 THEN <<"k", "M", "G", "T">>[d] ELSE ""

\* d, m = divmod(power, 3); reduced = value * 10**(m - power)
StrAt(self, power) ==
  Text(Sig4(Mul(self.value, Normal(1, 1, (power % 3) - power))),
       SuffixLetter(power \div 3), BaseSymbolOf(self.class))

SINumber_str(self) ==
  IF IsZero(self.value) THEN Text(Num(0), "", BaseSymbolOf(self.class))
  ELSE StrAt(self, Min(12, FloorLog10(self.value)))

\* str(unit) of the unit just constructed
StrCall ==
  /\ pc = "returned"
  /\ ret.op = "units"
  /\ ret.err = None
  /\ \E t \in {SINumber_str(ret.val)} :
       ret' = [op |-> "str", err |-> None, of |-> ret.val, text |-> t]
  /\ pc' = "printed"
  /\ UNCHANGED <<arg, loaderVars>>

NextUnits ==
  \/ NewUnitCall
  \/ StrCall

SpecUnits == InitUnits /\ [][NextUnits]_vars

(***************************************************************************)
(* Vocabulary of the properties of unit values.                            *)
(***************************************************************************)
Constructed(class, units) ==
  /\ ReturnedFrom("units")
  /\ arg.class = class
  /\ UnitsOf(arg) = units

\* 1e3, 1e6, 1e9, 1e12 for k, m, g, t in either case, 1 without a letter
MultiplierOfSuffix(suffix) ==
  IF suffix = <<>> THEN Num(1)
  ELSE CASE suffix[1] \in {"k", "K"} -> Normal(1, 1, 3)
         [] suffix[1] \in {"m", "M"} -> Normal(1, 1, 6)
         [] suffix[1] \in {"g", "G"} -> Normal(1, 1, 9)
         [] suffix[1] \in {"t", "T"} -> Normal(1, 1, 12)

OwnSymbol(class) == IF class = "Watt" THEN {"W", "w"} ELSE {"J", "j"}

WellFormed(a) ==
  /\ float(a.number).err = None
  /\ a.suffix \in OneOrNone({"k", "m", "g", "t", "K", "M", "G", "T"})
  /\ a.symbol \in OneOrNone(OwnSymbol(a.class))

(***************************************************************************)
(* C20.  A Watt or Joule constructed from a string made of a number, at    *)
(* most one suffix letter among k, m, g, t in either case, and at most one *)
(* base unit symbol holds the number times 1e3, 1e6, 1e9, 1e12 for the     *)
(* suffix, or times 1 without one; the base symbol does not change the     *)
(* value: '1.8M', '1.8m', '1.8MW' and '1800k' as Watt all hold 1 800 000.  *)
(***************************************************************************)
C20_MagnitudeInBaseUnits ==
  /\ (ReturnedFrom("units") /\ WellFormed(arg)) =>
       /\ ret.err = None
       /\ ret.val = Unit(arg.class, Mul(float(arg.number).val,
                                        MultiplierOfSuffix(arg.suffix)))
       /\ ret.val = NewUnit(arg.class, arg.number \o arg.suffix).val
  /\ \A units \in {<<"1", ".", "8", "M">>, <<"1", ".", "8", "m">>,
                   <<"1", ".", "8", "M", "W">>,
                   <<"1", "8", "0", "0", "k">>} :
       Constructed("Watt", units) =>
         ret.err = None /\ ret.val = Unit("Watt", Normal(18, 1, 5))

\* Watt('1.8MW') holds 1 800 000.
C20_Witness ==
  /\ Constructed("Watt", <<"1", ".", "8", "M", "W">>)
  /\ ret.err = None
  /\ ret.val = Unit("Watt", Normal(18, 1, 5))
  /\ ret.origSuffix = "m"

(***************************************************************************)
(* The parts of a units string: what is left without a trailing symbol of  *)
(* the class, the letter that ends it, and the numeric portion before the  *)
(* letter.                                                                 *)
(***************************************************************************)
WithoutSymbol(class, units) ==
  IF units # <<>> /\ Last(units) \in OwnSymbol(class) THEN ButLast(units)
  ELSE units

EndsInLetter(s) == s # <<>> /\ isalpha(Last(s))

NumericPortion(s) == IF EndsInLetter(s) THEN ButLast(s) ELSE s

EmptyInput == "units string cannot be empty"

InvalidFormat == "units string must contain a valid number"

UnknownSuffix == "Invalid suffix"

ParseError(msg) == ret.err = "ValueError" /\ ret.msg = msg

(***************************************************************************)
(* C21.  Constructing a unit value from a malformed string fails with the  *)
(* parse error of its kind and yields no value: the empty string fails     *)
(* with the empty-input error, a string whose numeric portion does not     *)
(* read as a number with the invalid-format error, and a string that ends, *)
(* without its base symbol, in a letter other than k, m, g, t with the     *)
(* unknown-suffix error.                                                   *)
(***************************************************************************)
C21_MalformedInputErrors ==
  ReturnedFrom("units") =>
    LET s == WithoutSymbol(arg.class, UnitsOf(arg))
    IN /\ UnitsOf(arg) = <<>> => ParseError(EmptyInput)
       /\ (s # <<>> /\ float(NumericPortion(s)).err # None) =>
            ParseError(InvalidFormat)
       /\ (EndsInLetter(s) /\ float(NumericPortion(s)).err = None
             /\ casefold(Last(s)) \notin {"k", "m", "g", "t"}) =>
            ParseError(UnknownSuffix)

(***************************************************************************)
(* What a printed text denotes, and the suffix a magnitude calls for.      *)
(***************************************************************************)
Printed == pc = "printed" /\ ret.op = "str"

SuffixValue(letter) ==
  CASE letter = "" -> Num(1)
    [] letter = "k" -> Normal(1, 1, 3)
    [] letter = "M" -> Normal(1, 1, 6)
    [] letter = "G" -> Normal(1, 1, 9)
    [] letter = "T" -> Normal(1, 1, 12)

Denoted(text) == Mul(text.number, SuffixValue(text.suffix))

\* The largest of none, k, M, G, T that does not exceed the order of ten.
LargestSuffix(order) ==
  IF order >= 12 THEN "T"
  ELSE IF order >= 9 THEN "G"
  ELSE IF order >= 6 THEN "M"
  ELSE IF order >= 3 THEN "k"
  ELSE ""

(***************************************************************************)
(* C22.  For a positive magnitude parsed from a number and a suffix among  *)
(* none, k, M, G, T, the printed number and suffix together denote the     *)
(* magnitude to 4 significant digits, and the suffix is the largest one    *)
(* that does not exceed the magnitude's order of ten, T at most.           *)
(***************************************************************************)
C22_FormatDenotesMagnitude ==
  (Printed /\ ~IsZero(ret.of.value)) =>
    /\ Denoted(ret.text) = Sig4(ret.of.value)
    /\ ret.text.suffix = LargestSuffix(FloorLog10(ret.of.value))

(***************************************************************************)
(* The arithmetic of SINumber.  _unitOrNumber hands the method the value   *)
(* of the other operand, be it a unit or a plain number.  The binary and   *)
(* the reflected methods return self.__class__(...); the in-place methods  *)
(* assign to self.value and return self.value.                             *)
(***************************************************************************)
Sub(x, y) == Add(x, Mul(Num(-1), y))

Operators == {"+", "-", "*", "/"}

Apply(op, x, y) ==
  CASE op = "+" -> Add(x, y)
    [] op = "-" -> Sub(x, y)
    [] op = "*" -> Mul(x, y)
    [] op = "/" -> Div(x, y)

DividesByZero(op, y) == op = "/" /\ IsZero(y)

Outcome(e, result, self, other) ==
  [op |-> "arith", err |-> e, val |-> result, self |-> self, other |-> other]

\* __add__, __sub__, __mul__, __truediv__
SINumber_binary(self, op, other) ==
  IF DividesByZero(op, other.value)
    THEN Outcome("ZeroDivisionError", Float(Num(0)), self, other)
  ELSE Outcome(None, Unit(self.class, Apply(op, self.value, other.value)),
               self, other)

\* __radd__, __rsub__, __rmul__, __rtruediv__
SINumber_reflected(self, op, other) ==
  IF DividesByZero(op, self.value)
    THEN Outcome("ZeroDivisionError", Float(Num(0)), self, other)
  ELSE Outcome(None, Unit(self.class, Apply(op, other.value, self.value)),
               self, other)

\* __iadd__, __isub__, __imul__, __itruediv__
SINumber_inplace(self, op, other) ==
  IF DividesByZero(op, other.value)
    THEN Outcome("ZeroDivisionError", Float(Num(0)), self, other)
  ELSE Outcome(None, Float(Apply(op, self.value, other.value)),
               Unit(self.class, Apply(op, self.value, other.value)), other)

(***************************************************************************)
(* Two operands, one of them at least a Watt or a Joule, and one           *)
(* operation on them: left op right, or left op= right.                    *)
(***************************************************************************)
Magnitudes == {Num(2), Frac(1, 2), Num(1500)}

UnitOperands == {Unit(c, x) : c \in UnitClasses, x \in Magnitudes}

Scalars == {Float(x) : x \in Magnitudes \cup {Num(0)}}

InitArith ==
  /\ pc = "arith"
  /\ arg \in {a \in [op : {"arith"}, left : UnitOperands \cup Scalars,
                     right : UnitOperands \cup Scalars] :
                HasValue(a.left) \/ HasValue(a.right)}
  /\ ret = NoRet
  /\ path = {}
  /\ data = <<>>
  /\ idx = 1
  /\ files = <<>>
  /\ yielded = <<>>
  /\ err = None
  /\ items = EmptyDict
  /\ fluids = EmptyDict
  /\ fuels = EmptyDict
  /\ groups = EmptyDict
  /\ subgroups = EmptyDict
  /\ recipes = EmptyDict
  /\ heap = <<>>
  /\ call = NoCall

Done(form, op, m) ==
  [op |-> "arith", form |-> form, operator |-> op, err |-> m.err,
   val |-> m.val, self |-> m.self, other |-> m.other]

\* left op right with a unit on the left: left.__op__(right)
BinaryCall ==
  /\ pc = "arith"
  /\ HasValue(arg.left)
  /\ \E op \in Operators :
       \E m \in {SINumber_binary(arg.left, op, arg.right)} :
         ret' = Done("binary", op, m)
  /\ pc' = "returned"
  /\ UNCHANGED <<arg, loaderVars>>

\* left op right with a plain number on the left: right.__rop__(left)
ReflectedCall ==
  /\ pc = "arith"
  /\ ~HasValue(arg.left)
  /\ \E op \in Operators :
       \E m \in {SINumber_reflected(arg.right, op, arg.left)} :
         ret' = Done("reflected", op, m)
  /\ pc' = "returned"
  /\ UNCHANGED <<arg, loaderVars>>

\* left op= right with a unit on the left: left = left.__iop__(right)
InPlaceCall ==
  /\ pc = "arith"
  /\ HasValue(arg.left)
  /\ \E op \in Operators :
       \E m \in {SINumber_inplace(arg.left, op, arg.right)} :
         ret' = Done("inplace", op, m)
  /\ pc' = "returned"
  /\ UNCHANGED <<arg, loaderVars>>

NextArith ==
  \/ BinaryCall
  \/ ReflectedCall
  \/ InPlaceCall

SpecArith == InitArith /\ [][NextArith]_vars

\* The unit operand whose method ran, and the magnitudes in operand order.
UnitOperand == IF HasValue(arg.left) THEN arg.left ELSE arg.right

Applied == Apply(ret.operator, arg.left.value, arg.right.value)

(***************************************************************************)
(* C23.  Every operation +, -, x, / on a Watt or Joule and another unit or *)
(* a plain number, in its binary, reflected or in-place form, results in a *)
(* unit of the same class that holds the operation applied to the two      *)
(* magnitudes; the binary and the reflected forms leave the magnitudes of  *)
(* both operands as they were.                                             *)
(***************************************************************************)
C23_ArithmeticYieldsUnit ==
  (ReturnedFrom("arith")
     /\ ~DividesByZero(ret.operator, arg.right.value)) =>
    /\ ret.err = None
    /\ ret.val = Unit(UnitOperand.class, Applied)
    /\ ret.form \in {"binary", "reflected"} =>
         /\ ret.self = UnitOperand
         /\ ret.other \in {arg.left, arg.right}

\* The records of the recipe pass already linked, one per recipe name: the
\* last one of its name.
LinkedRecords ==
  {k \in 1..(idx - 1) :
     /\ data[k].name \in DOMAIN recipes
     /\ \A j \in (k + 1)..(idx - 1) : data[j].name # data[k].name}

Declared(k) == VariantTable(data[k], FALSE)[1]

Linked(k) == heap[recipes[data[k].name]]

Finds(found, name) == found.err = None /\ found.obj.what = name

(***************************************************************************)
(* C24.  A recipe the linker builds from a record has the record's         *)
(* energy_required as its time, the record's ingredients as its input list *)
(* and the record's result or results as its output list, and              *)
(* getInputByName and getOutputByName find every ingredient and result the *)
(* record declares.                                                        *)
(***************************************************************************)
C24_LinkedRecipeFields ==
  InRecipePass =>
    \A k \in LinkedRecords :
      /\ Linked(k).time = NumVal(Declared(k).energy_required)
      /\ Linked(k).input.kind = "list"
      /\ Linked(k).output.kind = "list"
      /\ \A i \in DOMAIN IngredientNames(Declared(k)) :
           Finds(getInputByName(Linked(k), IngredientNames(Declared(k))[i]),
                 IngredientNames(Declared(k))[i])
      /\ \A i \in DOMAIN ResultNames(Declared(k)) :
           Finds(getOutputByName(Linked(k), ResultNames(Declared(k))[i]),
                 ResultNames(Declared(k))[i])

(***************************************************************************)
(* C25.  Recipe.miningRecipe(time, item) returns a recipe whose time is    *)
(* the time given, whose input list is empty and whose output list is the  *)
(* single ingredient of one item; an input or output list that is given    *)
(* becomes the recipe's input or output.                                   *)
(***************************************************************************)
C25_MiningRecipeFields ==
  ReturnedFrom("miningRecipe") =>
    /\ ret.val.time = arg.time
    /\ ret.val.input =
         IF arg.input = NoneVal THEN ListVal(<<>>) ELSE arg.input
    /\ ret.val.output =
         IF arg.output = NoneVal
           THEN ListVal(<<Ingredient(arg.item, 1, NilNum)>>) ELSE arg.output

\* The stage of initialize() a position belongs to: the item pass, the
\* pruning, the fluid pass, the recipe pass, the return.
StageOf(p) ==
  CASE p \in {"load_item", "items"} -> 1
    [] p \in {"prune_subgroups", "prune_groups"} -> 2
    [] p \in {"load_fluid", "fluids"} -> 3
    [] p \in {"load_recipe", "recipes"} -> 4
    [] p = "done" -> 5

(***************************************************************************)
(* C26.  The stages of linking run in the order item pass, pruning, fluid  *)
(* pass, recipe pass: no step goes back to an earlier stage or skips one.  *)
(* A step of the fluid pass or of the recipe pass leaves items, fuels,     *)
(* groups and subgroups, with the children of every group and subgroup, as *)
(* they were, and a step of the recipe pass leaves fluids as they were.    *)
(***************************************************************************)
C26_StagesOrderedAndFramed ==
  [][/\ StageOf(pc') \in {StageOf(pc), StageOf(pc) + 1}
     /\ StageOf(pc) >= 3 => UNCHANGED <<items, fuels, groups, subgroups>>
     /\ StageOf(pc) >= 4 => UNCHANGED fluids]_vars

\* A catalog was returned whose fluid pass added a fluid and whose recipe
\* pass added a recipe, after an item pass that left an item, a fuel and a
\* group with a child.
C26_Witness ==
  /\ Returned
  /\ DOMAIN fluids # {}
  /\ DOMAIN recipes # {}
  /\ DOMAIN items # {}
  /\ DOMAIN fuels # {}
  /\ \E g \in DOMAIN groups : groups[g].children # {}

\* The step handles the record data[idx] and raises nothing.
Handles(P(_)) ==
  /\ pc = "items"
  /\ idx' = idx + 1
  /\ ~Hidden(data[idx])
  /\ P(data[idx])

(***************************************************************************)
(* C27.  When the record that defines a placeholder group or a placeholder *)
(* subgroup is handled, the entry is updated, not replaced: its children   *)
(* are the children it had as a placeholder, its order holds the declared  *)
(* order, a subgroup's parent holds the declared group, and the subgroup   *)
(* is a child of that group.                                               *)
(***************************************************************************)
C27_PlaceholderUpdatedInPlace ==
  [][/\ (Handles(IsGroupRecord) /\ data[idx].name \in DOMAIN groups) =>
          /\ data[idx].name \in DOMAIN groups'
          /\ groups'[data[idx].name].children = groups[data[idx].name].children
          /\ groups'[data[idx].name].order = data[idx].order
     /\ (Handles(IsSubGroupRecord) /\ data[idx].name \in DOMAIN subgroups) =>
          /\ data[idx].name \in DOMAIN subgroups'
          /\ subgroups'[data[idx].name].children =
               subgroups[data[idx].name].children
          /\ subgroups'[data[idx].name].order = data[idx].order
          /\ subgroups'[data[idx].name].parent = data[idx].group
          /\ data[idx].group \in DOMAIN groups'
          /\ data[idx].name \in groups'[data[idx].group].children]_vars

\* An item came first, then the record of its subgroup, then the record of
\* that subgroup's group: both placeholders were filled in and kept the
\* child attached to them.
C27_Witness ==
  /\ pc = "items"
  /\ idx = 4
  /\ IsItemRecord(data[1]) /\ IsSubGroupRecord(data[2]) /\ IsGroupRecord(data[3])
  /\ \A k \in 1..3 : ~Hidden(data[k])
  /\ data[1].subgroup = data[2].name
  /\ data[2].group = data[3].name
  /\ data[1].name \in subgroups[data[2].name].children
  /\ subgroups[data[2].name].order = data[2].order
  /\ data[2].name \in groups[data[3].name].children
  /\ groups[data[3].name].order = data[3].order

(***************************************************************************)
(* C28.  A BurnerMiningDrill answers rates(recipe, fuel, count), for a     *)
(* fuel whose energy is a Joule, with a report that has both               *)
(* specializations: the 'fuel' figure is the energy rate divided by the    *)
(* fuel's energy, 'producers' is the count given, and 'consumed' equals    *)
(* 'produced' when the recipe has no inputs.                               *)
(***************************************************************************)
C28_BurnerDrillReport ==
  (ReturnedFrom("rates") /\ arg.self.class = "BurnerMiningDrill"
     /\ HasValue(ret.fuel.energy)) =>
    /\ ret.err = None
    /\ "fuel" \in ret.val.keys
    /\ ret.val.fuel = Div(ret.val.energy.value, ret.fuel.energy.value)
    /\ ret.val.producers = ret.count
    /\ arg.recipe.input.list = <<>> => ret.val.consumed = ret.val.produced

(***************************************************************************)
(* Pumpjack(Producer).  Its recipe is any object with the attributes the   *)
(* methods read: time, input, output and baseAmt.  productionRate and      *)
(* productionRateInverse take the current yield of the field, a            *)
(* percentage.                                                             *)
(***************************************************************************)
PumpjackRecipe(time, input_, output, baseAmt) ==
  [time |-> time, input |-> input_, output |-> output, expensive |-> NoRef,
   isExpensive |-> FALSE, baseAmt |-> baseAmt]

Less(x, y) == Sub(x, y).n < 0

\* min(currentYield / recipe.baseAmt, 100)
PerCycle(recipe, currentYield) ==
  IF Less(Num(100), Frac(currentYield, recipe.baseAmt)) THEN Num(100)
  ELSE Frac(currentYield, recipe.baseAmt)

Answer(e, val) == [err |-> e, val |-> val]

PumpjackRateOf(amount, count, craftResult) ==
  IF craftResult.err # None THEN Answer(craftResult.err, Num(0))
  ELSE IF IsZero(craftResult.duration) THEN Answer("ZeroDivisionError", Num(0))
  ELSE Answer(None, Div(Mul(amount, Num(count)), craftResult.duration))

Pumpjack_productionRate(self, recipe, currentYield, count) ==
  PumpjackRateOf(Mul(PerCycle(recipe, currentYield),
                     productivityMultiplier(self)),
                 count, craft(self, recipe))

PumpjackInverseOf(amount, fps, craftResult) ==
  IF craftResult.err # None THEN Answer(craftResult.err, Num(0))
  ELSE IF IsZero(amount) THEN Answer("ZeroDivisionError", Num(0))
  ELSE Answer(None, Div(Mul(Num(fps), craftResult.duration), amount))

Pumpjack_productionRateInverse(self, recipe, currentYield, fps) ==
  PumpjackInverseOf(Mul(PerCycle(recipe, currentYield),
                        productivityMultiplier(self)),
                    fps, craft(self, recipe))

\* self.craftSpeed * self.speedMultiplier() / recipe.time * count
fieldCycleConsumptionRate(self, recipe, count) ==
  IF recipe.time.kind # "num" THEN Answer("TypeError", Num(0))
  ELSE IF recipe.time.num = 0 THEN Answer("ZeroDivisionError", Num(0))
  ELSE Answer(None, Mul(Div(Mul(self.craftSpeed, speedMultiplier(self)),
                            Num(recipe.time.num)), Num(count)))

(***************************************************************************)
(* Pumpjack.rates.  The loops of Producer.rates call self.consumptionRate  *)
(* (recipe, name, count) and self.productionRate(recipe, name, count),     *)
(* which are Pumpjack's: consumptionRate takes one argument less, and      *)
(* productionRate divides the name by baseAmt.  Both raise TypeError.  The *)
(* method ends after rateDict['cycles'] is assigned, with no return.       *)
(***************************************************************************)
RaisesForEach(list) == [k \in DOMAIN list |-> Answer("TypeError", Num(0))]

PumpjackRatesOf(rateDict, cycles) ==
  IF rateDict.err # None
    THEN [err |-> rateDict.err, returned |-> None, rateDict |-> rateDict,
          cycles |-> Num(0)]
  ELSE IF cycles.err # None
    THEN [err |-> cycles.err, returned |-> None, rateDict |-> rateDict,
          cycles |-> Num(0)]
  ELSE [err |-> None, returned |-> None,
        rateDict |-> [rateDict EXCEPT !.keys = @ \cup {"cycles"}],
        cycles |-> cycles.val]

Pumpjack_rates(self, recipe, count) ==
  PumpjackRatesOf(RatesOf(recipe, count, craft(self, recipe),
                          RaisesForEach(recipe.input.list),
                          RaisesForEach(recipe.output.list)),
                  fieldCycleConsumptionRate(self, recipe, count))

(***************************************************************************)
(* A pumpjack with any modules in its slots, a recipe, a field yield, and  *)
(* one call of a method of the pumpjack.                                   *)
(***************************************************************************)
Fitted(self, modules) == [self EXCEPT !.modules = modules]

Pumpjacks ==
  {Fitted(Producer("Pumpjack", "Pumpjack", s, 2, Unit("Watt", Num(90000)),
                   Float(Num(0)), Num(10)), ms) :
     <<s, ms>> \in {Num(1), Frac(1, 2)}
                     \X [1..2 -> ModulePool \cup {EmptySlot}]}

PumpjackRecipes ==
  {PumpjackRecipe(NumVal(t), ListVal(i), ListVal(o), b) :
     <<t, i, o, b>> \in {1, 2} \X {<<>>, <<Ingredient("i1", 1, NilNum)>>}
                          \X {<<>>, <<Ingredient("f1", 10, NilNum)>>}
                          \X {1, 10}}

Yields == {20, 95, 538, 1000}

InitPumpjack ==
  /\ pc = "pumpjack"
  /\ arg \in [self : Pumpjacks, recipe : PumpjackRecipes, currentYield : Yields]
  /\ ret = NoRet
  /\ path = {}
  /\ data = <<>>
  /\ idx = 1
  /\ files = <<>>
  /\ yielded = <<>>
  /\ err = None
  /\ items = EmptyDict
  /\ fluids = EmptyDict
  /\ fuels = EmptyDict
  /\ groups = EmptyDict
  /\ subgroups = EmptyDict
  /\ recipes = EmptyDict
  /\ heap = <<>>
  /\ call = NoCall

PumpjackProductionRateCall ==
  /\ pc = "pumpjack"
  /\ \E count \in Counts :
       \E m \in {Pumpjack_productionRate(arg.self, arg.recipe,
                                         arg.currentYield, count)} :
         ret' = [op |-> "productionRate", count |-> count, err |-> m.err,
                 val |-> m.val]
  /\ pc' = "returned"
  /\ UNCHANGED <<arg, loaderVars>>

PumpjackProductionRateInverseCall ==
  /\ pc = "pumpjack"
  /\ \E fps \in Counts :
       \E m \in {Pumpjack_productionRateInverse(arg.self, arg.recipe,
                                                arg.currentYield, fps)} :
         ret' = [op |-> "productionRateInverse", count |-> fps,
                 err |-> m.err, val |-> m.val]
  /\ pc' = "returned"
  /\ UNCHANGED <<arg, loaderVars>>

FieldCycleConsumptionRateCall ==
  /\ pc = "pumpjack"
  /\ \E count \in Counts :
       \E m \in {fieldCycleConsumptionRate(arg.self, arg.recipe, count)} :
         ret' = [op |-> "fieldCycleConsumptionRate", count |-> count,
                 err |-> m.err, val |-> m.val]
  /\ pc' = "returned"
  /\ UNCHANGED <<arg, loaderVars>>

PumpjackRatesCall ==
  /\ pc = "pumpjack"
  /\ \E count \in Counts :
       \E m \in {Pumpjack_rates(arg.self, arg.recipe, count)} :
         ret' = [op |-> "rates", count |-> count, err |-> m.err, val |-> m]
  /\ pc' = "returned"
  /\ UNCHANGED <<arg, loaderVars>>

NextPumpjack ==
  \/ PumpjackProductionRateCall
  \/ PumpjackProductionRateInverseCall
  \/ FieldCycleConsumptionRateCall
  \/ PumpjackRatesCall

SpecPumpjack == InitPumpjack /\ [][NextPumpjack]_vars

\* What one producer puts out in one cycle: the rate times the duration of
\* a cycle, divided by the number of producers.
QuantityPerCycle ==
  Div(Mul(ret.val, craft(arg.self, arg.recipe).duration), Num(ret.count))

(***************************************************************************)
(* C29.  The quantity a Pumpjack produces per cycle and per producer, its  *)
(* productionRate times the duration of a cycle divided by the count,      *)
(* never exceeds 100, whatever the yield of the field, the base amount of  *)
(* the recipe and the modules installed.                                   *)
(***************************************************************************)
C29_OutputCappedAt100 ==
  (ReturnedFrom("productionRate") /\ arg.self.class = "Pumpjack"
     /\ ret.err = None) =>
    ~Less(Num(100), QuantityPerCycle)

(***************************************************************************)
(* C30.  Pumpjack.rates(recipe, count) returns a report: the report of     *)
(* Producer.rates (producers, consumed, produced, energy, pollution) with  *)
(* the entry 'cycles' added, which is fieldCycleConsumptionRate(recipe,    *)
(* count) = count x craftSpeed x speedMultiplier / recipe.time.            *)
(***************************************************************************)
C30_PumpjackReport ==
  (ReturnedFrom("rates") /\ arg.self.class = "Pumpjack") =>
    /\ ret.err = None
    /\ ret.val.returned # None
    /\ ret.val.rateDict.keys = ReportKeys \cup {"cycles"}
    /\ ret.val.rateDict.producers = ret.count
    /\ ret.val.cycles =
         Div(Mul(Num(ret.count),
                 Mul(arg.self.craftSpeed, speedMultiplier(arg.self))),
             Num(arg.recipe.time.num))

====
